---------------------------- MODULE Spec2Model ----------------------------
(***************************************************************************)
(* Model of receipt_processor/product_normalizer.py: the ProductNormalizer *)
(* matching cascade (clean_text, expand_abbreviations, the similarity      *)
(* scorers, normalize) and the catalog mutations (learn_mapping,           *)
(* add_product, _build_product_index).                                     *)
(*                                                                         *)
(* A Python str is a sequence of characters.  An ASCII character is the    *)
(* one-character string; any other code point is written "U+XXXX".  Python *)
(* None is the value None below.  A dict is the sequence of its items in   *)
(* insertion order (the order Python iterates it in).  A float score is    *)
(* the exact rational [n |-> numerator, d |-> denominator]; a value that   *)
(* the code rounds to three decimals is an integer number of thousandths.  *)
(***************************************************************************)
EXTENDS Integers, Sequences, FiniteSets, TLC

None == <<"<None>">>

(***************************************************************************)
(* Characters: str.lower, unicodedata.normalize('NFD', .), the category    *)
(* Mn, and the regular expression classes \w and \s, on the characters the *)
(* source and the inputs below use.                                        *)
(***************************************************************************)
LowerAlphabet ==
    <<"a", "b", "c", "d", "e", "f", "g", "h", "i", "j", "k", "l", "m",
      "n", "o", "p", "q", "r", "s", "t", "u", "v", "w", "x", "y", "z",
      "U+00E0", "U+00E2", "U+00E8", "U+00E9", "U+00EE", "U+00EF", "U+00FB">>

UpperAlphabet ==
    <<"A", "B", "C", "D", "E", "F", "G", "H", "I", "J", "K", "L", "M",
      "N", "O", "P", "Q", "R", "S", "T", "U", "V", "W", "X", "Y", "Z",
      "U+00C0", "U+00C2", "U+00C8", "U+00C9", "U+00CE", "U+00CF", "U+00DB">>

Digits == {"0", "1", "2", "3", "4", "5", "6", "7", "8", "9"}

Range(s) == {s[i] : i \in DOMAIN s}

\* c.lower() for one character
LowerOf ==
    [c \in Range(UpperAlphabet) |->
        LowerAlphabet[CHOOSE i \in DOMAIN UpperAlphabet : UpperAlphabet[i] = c]]

char_lower(c) == IF c \in DOMAIN LowerOf THEN LowerOf[c] ELSE c

\* canonical decomposition (NFD) of one character
Decomposition ==
    [c \in {"U+00E0", "U+00E2", "U+00E8", "U+00E9", "U+00EE", "U+00EF", "U+00FB",
            "U+00C0", "U+00C2", "U+00C8", "U+00C9", "U+00CE", "U+00CF", "U+00DB"} |->
        CASE c = "U+00E0" -> <<"a", "U+0300">>
          [] c = "U+00E2" -> <<"a", "U+0302">>
          [] c = "U+00E8" -> <<"e", "U+0300">>
          [] c = "U+00E9" -> <<"e", "U+0301">>
          [] c = "U+00EE" -> <<"i", "U+0302">>
          [] c = "U+00EF" -> <<"i", "U+0308">>
          [] c = "U+00FB" -> <<"u", "U+0302">>
          [] c = "U+00C0" -> <<"A", "U+0300">>
          [] c = "U+00C2" -> <<"A", "U+0302">>
          [] c = "U+00C8" -> <<"E", "U+0300">>
          [] c = "U+00C9" -> <<"E", "U+0301">>
          [] c = "U+00CE" -> <<"I", "U+0302">>
          [] c = "U+00CF" -> <<"I", "U+0308">>
          [] c = "U+00DB" -> <<"U", "U+0302">>]

char_nfd(c) == IF c \in DOMAIN Decomposition THEN Decomposition[c] ELSE <<c>>

\* unicodedata.category(c) == 'Mn' (the combining marks)
CategoryMn == {"U+0300", "U+0301", "U+0302", "U+0308"}

\* the class \w of re (str patterns): alphanumerics and the underscore
IsWordChar(c) ==
    \/ c \in Range(LowerAlphabet)
    \/ c \in Range(UpperAlphabet)
    \/ c \in Digits
    \/ c = "_"

\* the class \s of re, which is also what str.split() splits on
IsSpace(c) == c \in {" ", "\t"}

RECURSIVE str_nfd(_)
str_nfd(text) ==
    IF text = <<>> THEN <<>> ELSE char_nfd(Head(text)) \o str_nfd(Tail(text))

\* text.split(): the maximal runs of non-space characters
RECURSIVE str_split(_, _)
str_split(text, word) ==
    IF text = <<>>
    THEN IF word = <<>> THEN <<>> ELSE <<word>>
    ELSE IF IsSpace(Head(text))
         THEN (IF word = <<>> THEN <<>> ELSE <<word>>) \o str_split(Tail(text), <<>>)
         ELSE str_split(Tail(text), Append(word, Head(text)))

\* ' '.join(words)
RECURSIVE str_join(_)
str_join(words) ==
    IF words = <<>> THEN <<>>
    ELSE IF Len(words) = 1 THEN words[1]
    ELSE words[1] \o <<" ">> \o str_join(Tail(words))

\* NOISE_WORDS, spelled as in the source (the accented entries keep their accents)
NOISE_WORDS ==
    { <<"l", "e">>,
      <<"l", "a">>,
      <<"l", "e", "s">>,
      <<"u", "n">>,
      <<"u", "n", "e">>,
      <<"d", "e", "s">>,
      <<"d", "u">>,
      <<"d", "e">>,
      <<"U+00E0">>,
      <<"a", "u">>,
      <<"a", "u", "x">>,
      <<"t", "h", "e">>,
      <<"a">>,
      <<"a", "n">>,
      <<"o", "f">>,
      <<"t", "o">>,
      <<"f", "o", "r">>,
      <<"w", "i", "t", "h">>,
      <<"p", "a", "c", "k">>,
      <<"p", "a", "q", "u", "e", "t">>,
      <<"s", "a", "c", "h", "e", "t">>,
      <<"b", "o", "U+00EE", "t", "e">>,
      <<"b", "o", "x">>,
      <<"p", "i", "e", "c", "e">>,
      <<"p", "c", "s">>,
      <<"k", "g">>,
      <<"g">>,
      <<"m", "l">>,
      <<"l">> }

\* ABBREVIATION_MAP as its <<key, value>> items
ABBREVIATION_MAP ==
    << <<<<"b", "n", "n">>, <<"b", "a", "n", "a", "n", "e">>>>,
       <<<<"b", "n", "n", " ", "p", "l", "t", "n">>, <<"b", "a", "n", "a", "n", "e", " ", "p", "l", "a", "n", "t", "a", "i", "n">>>>,
       <<<<"p", "l", "t", "n">>, <<"p", "l", "a", "n", "t", "a", "i", "n">>>>,
       <<<<"p", "v", "r", "e">>, <<"p", "o", "i", "v", "r", "e">>>>,
       <<<<"p", "m", "d", "t">>, <<"p", "o", "m", "m", "e", " ", "d", "e", " ", "t", "e", "r", "r", "e">>>>,
       <<<<"p", "d", "t">>, <<"p", "o", "m", "m", "e", " ", "d", "e", " ", "t", "e", "r", "r", "e">>>>,
       <<<<"t", "o", "m">>, <<"t", "o", "m", "a", "t", "e">>>>,
       <<<<"o", "g", "n">>, <<"o", "i", "g", "n", "o", "n">>>>,
       <<<<"c", "r", "t">>, <<"c", "a", "r", "o", "t", "t", "e">>>>,
       <<<<"p", "o", "u", "l">>, <<"p", "o", "u", "l", "e", "t">>>>,
       <<<<"p", "s", "s", "n">>, <<"p", "o", "i", "s", "s", "o", "n">>>>,
       <<<<"h", "l", "e">>, <<"h", "u", "i", "l", "e">>>>,
       <<<<"h", "l", "e", " ", "p", "l", "m">>, <<"h", "u", "i", "l", "e", " ", "d", "e", " ", "p", "a", "l", "m", "e">>>>,
       <<<<"h", "l", "e", " ", "v", "g", "t">>, <<"h", "u", "i", "l", "e", " ", "v", "U+00E9", "g", "U+00E9", "t", "a", "l", "e">>>>,
       <<<<"f", "n", "e">>, <<"f", "a", "r", "i", "n", "e">>>>,
       <<<<"s", "c", "r">>, <<"s", "u", "c", "r", "e">>>>,
       <<<<"l", "t">>, <<"l", "a", "i", "t">>>>,
       <<<<"e", "a", "u", " ", "m", "i", "n">>, <<"e", "a", "u", " ", "m", "i", "n", "U+00E9", "r", "a", "l", "e">>>>,
       <<<<"j", "u", "s", " ", "f", "r", "t", "s">>, <<"j", "u", "s", " ", "d", "e", " ", "f", "r", "u", "i", "t", "s">>>>,
       <<<<"s", "v", "n">>, <<"s", "a", "v", "o", "n">>>>,
       <<<<"d", "t", "r", "g", "t">>, <<"d", "U+00E9", "t", "e", "r", "g", "e", "n", "t">>>>,
       <<<<"c", "c", "h">>, <<"c", "o", "u", "c", "h", "e", "s">>>>,
       <<<<"p", "p", " ", "t", "l", "t">>, <<"p", "a", "p", "i", "e", "r", " ", "t", "o", "i", "l", "e", "t", "t", "e">>>>,
       <<<<"c", "o", "n", "c", " ", "t", "o", "m">>, <<"c", "o", "n", "c", "e", "n", "t", "r", "U+00E9", " ", "d", "e", " ", "t", "o", "m", "a", "t", "e">>>>,
       <<<<"p", "t", "e", " ", "t", "o", "m">>, <<"p", "U+00E2", "t", "e", " ", "d", "e", " ", "t", "o", "m", "a", "t", "e">>>>,
       <<<<"v", "e", "g", " ", "o", "i", "l">>, <<"v", "e", "g", "e", "t", "a", "b", "l", "e", " ", "o", "i", "l">>>>,
       <<<<"p", "l", "m", " ", "o", "i", "l">>, <<"p", "a", "l", "m", " ", "o", "i", "l">>>>,
       <<<<"t", "o", "m", " ", "p", "s", "t">>, <<"t", "o", "m", "a", "t", "o", " ", "p", "a", "s", "t", "e">>>>,
       <<<<"g", "r", "n", "d", "n", "t", "s">>, <<"g", "r", "o", "u", "n", "d", "n", "u", "t", "s">>>>,
       <<<<"p", "n", "t", "s">>, <<"p", "e", "a", "n", "u", "t", "s">>>>,
       <<<<"c", "h", "k", "n">>, <<"c", "h", "i", "c", "k", "e", "n">>>>,
       <<<<"f", "s", "h">>, <<"f", "i", "s", "h">>>>,
       <<<<"w", "t", "r">>, <<"w", "a", "t", "e", "r">>>>,
       <<<<"m", "i", "n", " ", "w", "t", "r">>, <<"m", "i", "n", "e", "r", "a", "l", " ", "w", "a", "t", "e", "r">>>>,
       <<<<"t", "l", "t", " ", "p", "p", "r">>, <<"t", "o", "i", "l", "e", "t", " ", "p", "a", "p", "e", "r">>>>,
       <<<<"p", "r", "i", "m", "u", "s">>, <<"b", "i", "U+00E8", "r", "e">>>>,
       <<<<"s", "k", "o", "l">>, <<"b", "i", "U+00E8", "r", "e">>>>,
       <<<<"f", "a", "n", "t", "a">>, <<"s", "o", "d", "a">>>>,
       <<<<"c", "o", "c", "a">>, <<"s", "o", "d", "a">>>>,
       <<<<"s", "p", "r", "i", "t", "e">>, <<"s", "o", "d", "a">>>>,
       <<<<"o", "m", "o">>, <<"d", "U+00E9", "t", "e", "r", "g", "e", "n", "t">>>>,
       <<<<"a", "r", "i", "e", "l">>, <<"d", "U+00E9", "t", "e", "r", "g", "e", "n", "t">>>>,
       <<<<"p", "a", "m", "p", "e", "r", "s">>, <<"c", "o", "u", "c", "h", "e", "s">>>>,
       <<<<"h", "u", "g", "g", "i", "e", "s">>, <<"c", "o", "u", "c", "h", "e", "s">>>> >>

InAbbreviationMap(key) == key \in {item[1] : item \in Range(ABBREVIATION_MAP)}

AbbreviationOf(key) == (CHOOSE item \in Range(ABBREVIATION_MAP) : item[1] = key)[2]

\* text.lower()
str_lower(text) == [i \in DOMAIN text |-> char_lower(text[i])]

\* ''.join(c for c in unicodedata.normalize('NFD', text) if category(c) != 'Mn')
strip_marks(text) == SelectSeq(str_nfd(text), LAMBDA c : c \notin CategoryMn)

\* re.sub(r'[^\w\s]', ' ', text)
replace_punctuation(text) ==
    [i \in DOMAIN text |-> IF IsWordChar(text[i]) \/ IsSpace(text[i]) THEN text[i] ELSE " "]

\* [w for w in words if w not in NOISE_WORDS and len(w) > 1]
drop_noise(words) == SelectSeq(words, LAMBDA w : w \notin NOISE_WORDS /\ Len(w) > 1)

\* clean_text with the noise words dropped before the accents and the punctuation
clean_text_noise_first(text) ==
    IF text = None \/ text = <<>>
    THEN <<>>
    ELSE str_join(str_split(replace_punctuation(strip_marks(
             str_join(drop_noise(str_split(str_lower(text), <<>>))))), <<>>))

\* the statements of clean_text (lines 369-390)
clean_text_steps(text) ==
    IF text = None \/ text = <<>>
    THEN <<>>
    ELSE str_join(drop_noise(str_split(replace_punctuation(strip_marks(str_lower(text))),
                                       <<>>)))

\* table[key] where the table has the key, and otherwise what the statements give
memo(table, key, computed) == IF key \in DOMAIN table THEN table[key] ELSE computed

\* the same for a table of tables
memo2(table, key1, key2, computed) ==
    IF key1 \in DOMAIN table THEN memo(table[key1], key2, computed) ELSE computed
(***************************************************************************)
(* DEFAULT_MASTER_PRODUCTS["products"], the catalog of a first start.      *)
(***************************************************************************)
DEFAULT_MASTER_PRODUCTS ==
    << [product_id |-> <<"P", "R", "O", "D", "_", "0", "0", "1">>, normalized_name |-> <<"p", "l", "a", "n", "t", "a", "i", "n">>,
        category |-> "Fruits", unit_of_measure |-> "kg",
        aliases_fr |-> <<<<"b", "a", "n", "a", "n", "e", " ", "p", "l", "a", "n", "t", "a", "i", "n">>, <<"p", "l", "a", "n", "t", "a", "i", "n", " ", "m", "U+00FB", "r">>>>,
        aliases_en |-> <<<<"p", "l", "a", "n", "t", "a", "i", "n">>, <<"p", "l", "a", "n", "t", "a", "i", "n", " ", "b", "a", "n", "a", "n", "a">>, <<"c", "o", "o", "k", "i", "n", "g", " ", "b", "a", "n", "a", "n", "a">>>>],
       [product_id |-> <<"P", "R", "O", "D", "_", "0", "0", "2">>, normalized_name |-> <<"b", "a", "n", "a", "n", "a">>,
        category |-> "Fruits", unit_of_measure |-> "kg",
        aliases_fr |-> <<<<"b", "a", "n", "a", "n", "e">>, <<"b", "a", "n", "a", "n", "e", " ", "d", "o", "u", "c", "e">>>>,
        aliases_en |-> <<<<"b", "a", "n", "a", "n", "a">>, <<"s", "w", "e", "e", "t", " ", "b", "a", "n", "a", "n", "a">>>>],
       [product_id |-> <<"P", "R", "O", "D", "_", "0", "0", "3">>, normalized_name |-> <<"o", "r", "a", "n", "g", "e">>,
        category |-> "Fruits", unit_of_measure |-> "kg",
        aliases_fr |-> <<<<"o", "r", "a", "n", "g", "e">>, <<"o", "r", "a", "n", "g", "e", "s">>>>,
        aliases_en |-> <<<<"o", "r", "a", "n", "g", "e">>, <<"o", "r", "a", "n", "g", "e", "s">>>>],
       [product_id |-> <<"P", "R", "O", "D", "_", "0", "0", "4">>, normalized_name |-> <<"a", "p", "p", "l", "e">>,
        category |-> "Fruits", unit_of_measure |-> "kg",
        aliases_fr |-> <<<<"p", "o", "m", "m", "e">>, <<"p", "o", "m", "m", "e", "s">>>>,
        aliases_en |-> <<<<"a", "p", "p", "l", "e">>, <<"a", "p", "p", "l", "e", "s">>>>],
       [product_id |-> <<"P", "R", "O", "D", "_", "0", "0", "5">>, normalized_name |-> <<"m", "a", "n", "g", "o">>,
        category |-> "Fruits", unit_of_measure |-> "kg",
        aliases_fr |-> <<<<"m", "a", "n", "g", "u", "e">>, <<"m", "a", "n", "g", "u", "e", "s">>>>,
        aliases_en |-> <<<<"m", "a", "n", "g", "o">>, <<"m", "a", "n", "g", "o", "e", "s">>>>],
       [product_id |-> <<"P", "R", "O", "D", "_", "0", "0", "6">>, normalized_name |-> <<"p", "i", "n", "e", "a", "p", "p", "l", "e">>,
        category |-> "Fruits", unit_of_measure |-> "piece",
        aliases_fr |-> <<<<"a", "n", "a", "n", "a", "s">>>>,
        aliases_en |-> <<<<"p", "i", "n", "e", "a", "p", "p", "l", "e">>>>],
       [product_id |-> <<"P", "R", "O", "D", "_", "0", "0", "7">>, normalized_name |-> <<"p", "a", "p", "a", "y", "a">>,
        category |-> "Fruits", unit_of_measure |-> "kg",
        aliases_fr |-> <<<<"p", "a", "p", "a", "y", "e">>, <<"p", "a", "w", "p", "a", "w">>>>,
        aliases_en |-> <<<<"p", "a", "p", "a", "y", "a">>, <<"p", "a", "w", "p", "a", "w">>>>],
       [product_id |-> <<"P", "R", "O", "D", "_", "0", "0", "8">>, normalized_name |-> <<"a", "v", "o", "c", "a", "d", "o">>,
        category |-> "Fruits", unit_of_measure |-> "piece",
        aliases_fr |-> <<<<"a", "v", "o", "c", "a", "t">>, <<"a", "v", "o", "c", "a", "t", "s">>>>,
        aliases_en |-> <<<<"a", "v", "o", "c", "a", "d", "o">>, <<"a", "v", "o", "c", "a", "d", "o", "s">>>>],
       [product_id |-> <<"P", "R", "O", "D", "_", "0", "0", "9">>, normalized_name |-> <<"l", "e", "m", "o", "n">>,
        category |-> "Fruits", unit_of_measure |-> "kg",
        aliases_fr |-> <<<<"c", "i", "t", "r", "o", "n">>, <<"c", "i", "t", "r", "o", "n", "s">>>>,
        aliases_en |-> <<<<"l", "e", "m", "o", "n">>, <<"l", "e", "m", "o", "n", "s">>>>],
       [product_id |-> <<"P", "R", "O", "D", "_", "0", "1", "0">>, normalized_name |-> <<"w", "a", "t", "e", "r", "m", "e", "l", "o", "n">>,
        category |-> "Fruits", unit_of_measure |-> "piece",
        aliases_fr |-> <<<<"p", "a", "s", "t", "U+00E8", "q", "u", "e">>, <<"m", "e", "l", "o", "n", " ", "d", "'", "e", "a", "u">>>>,
        aliases_en |-> <<<<"w", "a", "t", "e", "r", "m", "e", "l", "o", "n">>>>],
       [product_id |-> <<"P", "R", "O", "D", "_", "0", "2", "0">>, normalized_name |-> <<"t", "o", "m", "a", "t", "o">>,
        category |-> "Vegetables", unit_of_measure |-> "kg",
        aliases_fr |-> <<<<"t", "o", "m", "a", "t", "e">>, <<"t", "o", "m", "a", "t", "e", "s">>>>,
        aliases_en |-> <<<<"t", "o", "m", "a", "t", "o">>, <<"t", "o", "m", "a", "t", "o", "e", "s">>>>],
       [product_id |-> <<"P", "R", "O", "D", "_", "0", "2", "1">>, normalized_name |-> <<"o", "n", "i", "o", "n">>,
        category |-> "Vegetables", unit_of_measure |-> "kg",
        aliases_fr |-> <<<<"o", "i", "g", "n", "o", "n">>, <<"o", "i", "g", "n", "o", "n", "s">>>>,
        aliases_en |-> <<<<"o", "n", "i", "o", "n">>, <<"o", "n", "i", "o", "n", "s">>>>],
       [product_id |-> <<"P", "R", "O", "D", "_", "0", "2", "2">>, normalized_name |-> <<"g", "a", "r", "l", "i", "c">>,
        category |-> "Vegetables", unit_of_measure |-> "kg",
        aliases_fr |-> <<<<"a", "i", "l">>>>,
        aliases_en |-> <<<<"g", "a", "r", "l", "i", "c">>>>],
       [product_id |-> <<"P", "R", "O", "D", "_", "0", "2", "3">>, normalized_name |-> <<"c", "a", "r", "r", "o", "t">>,
        category |-> "Vegetables", unit_of_measure |-> "kg",
        aliases_fr |-> <<<<"c", "a", "r", "o", "t", "t", "e">>, <<"c", "a", "r", "o", "t", "t", "e", "s">>>>,
        aliases_en |-> <<<<"c", "a", "r", "r", "o", "t">>, <<"c", "a", "r", "r", "o", "t", "s">>>>],
       [product_id |-> <<"P", "R", "O", "D", "_", "0", "2", "4">>, normalized_name |-> <<"p", "o", "t", "a", "t", "o">>,
        category |-> "Vegetables", unit_of_measure |-> "kg",
        aliases_fr |-> <<<<"p", "o", "m", "m", "e", " ", "d", "e", " ", "t", "e", "r", "r", "e">>, <<"p", "a", "t", "a", "t", "e">>>>,
        aliases_en |-> <<<<"p", "o", "t", "a", "t", "o">>, <<"p", "o", "t", "a", "t", "o", "e", "s">>>>],
       [product_id |-> <<"P", "R", "O", "D", "_", "0", "2", "5">>, normalized_name |-> <<"c", "a", "s", "s", "a", "v", "a">>,
        category |-> "Vegetables", unit_of_measure |-> "kg",
        aliases_fr |-> <<<<"m", "a", "n", "i", "o", "c">>, <<"k", "w", "a", "n", "g", "a">>>>,
        aliases_en |-> <<<<"c", "a", "s", "s", "a", "v", "a">>, <<"m", "a", "n", "i", "o", "c">>>>],
       [product_id |-> <<"P", "R", "O", "D", "_", "0", "2", "6">>, normalized_name |-> <<"c", "a", "b", "b", "a", "g", "e">>,
        category |-> "Vegetables", unit_of_measure |-> "piece",
        aliases_fr |-> <<<<"c", "h", "o", "u">>, <<"c", "h", "o", "u", "x">>>>,
        aliases_en |-> <<<<"c", "a", "b", "b", "a", "g", "e">>>>],
       [product_id |-> <<"P", "R", "O", "D", "_", "0", "2", "7">>, normalized_name |-> <<"s", "p", "i", "n", "a", "c", "h">>,
        category |-> "Vegetables", unit_of_measure |-> "bunch",
        aliases_fr |-> <<<<"U+00E9", "p", "i", "n", "a", "r", "d">>, <<"U+00E9", "p", "i", "n", "a", "r", "d", "s">>>>,
        aliases_en |-> <<<<"s", "p", "i", "n", "a", "c", "h">>>>],
       [product_id |-> <<"P", "R", "O", "D", "_", "0", "2", "8">>, normalized_name |-> <<"p", "e", "p", "p", "e", "r">>,
        category |-> "Vegetables", unit_of_measure |-> "kg",
        aliases_fr |-> <<<<"p", "o", "i", "v", "r", "e">>, <<"p", "i", "m", "e", "n", "t">>, <<"p", "o", "i", "v", "r", "o", "n">>>>,
        aliases_en |-> <<<<"p", "e", "p", "p", "e", "r">>, <<"b", "e", "l", "l", " ", "p", "e", "p", "p", "e", "r">>, <<"c", "h", "i", "l", "i">>>>],
       [product_id |-> <<"P", "R", "O", "D", "_", "0", "2", "9">>, normalized_name |-> <<"e", "g", "g", "p", "l", "a", "n", "t">>,
        category |-> "Vegetables", unit_of_measure |-> "kg",
        aliases_fr |-> <<<<"a", "u", "b", "e", "r", "g", "i", "n", "e">>, <<"a", "u", "b", "e", "r", "g", "i", "n", "e", "s">>>>,
        aliases_en |-> <<<<"e", "g", "g", "p", "l", "a", "n", "t">>, <<"a", "u", "b", "e", "r", "g", "i", "n", "e">>>>],
       [product_id |-> <<"P", "R", "O", "D", "_", "0", "3", "0">>, normalized_name |-> <<"o", "k", "r", "a">>,
        category |-> "Vegetables", unit_of_measure |-> "kg",
        aliases_fr |-> <<<<"g", "o", "m", "b", "o">>, <<"g", "o", "m", "b", "o", "s">>>>,
        aliases_en |-> <<<<"o", "k", "r", "a">>, <<"l", "a", "d", "y", " ", "f", "i", "n", "g", "e", "r">>>>],
       [product_id |-> <<"P", "R", "O", "D", "_", "0", "4", "0">>, normalized_name |-> <<"c", "h", "i", "c", "k", "e", "n">>,
        category |-> "Proteins", unit_of_measure |-> "kg",
        aliases_fr |-> <<<<"p", "o", "u", "l", "e", "t">>, <<"p", "o", "u", "l", "e", "t", "s">>>>,
        aliases_en |-> <<<<"c", "h", "i", "c", "k", "e", "n">>>>],
       [product_id |-> <<"P", "R", "O", "D", "_", "0", "4", "1">>, normalized_name |-> <<"b", "e", "e", "f">>,
        category |-> "Proteins", unit_of_measure |-> "kg",
        aliases_fr |-> <<<<"b", "o", "e", "u", "f">>, <<"v", "i", "a", "n", "d", "e", " ", "d", "e", " ", "b", "o", "e", "u", "f">>>>,
        aliases_en |-> <<<<"b", "e", "e", "f">>>>],
       [product_id |-> <<"P", "R", "O", "D", "_", "0", "4", "2">>, normalized_name |-> <<"g", "o", "a", "t">>,
        category |-> "Proteins", unit_of_measure |-> "kg",
        aliases_fr |-> <<<<"c", "h", "U+00E8", "v", "r", "e">>, <<"v", "i", "a", "n", "d", "e", " ", "d", "e", " ", "c", "h", "U+00E8", "v", "r", "e">>>>,
        aliases_en |-> <<<<"g", "o", "a", "t">>, <<"g", "o", "a", "t", " ", "m", "e", "a", "t">>>>],
       [product_id |-> <<"P", "R", "O", "D", "_", "0", "4", "3">>, normalized_name |-> <<"f", "i", "s", "h">>,
        category |-> "Proteins", unit_of_measure |-> "kg",
        aliases_fr |-> <<<<"p", "o", "i", "s", "s", "o", "n">>, <<"p", "o", "i", "s", "s", "o", "n", "s">>>>,
        aliases_en |-> <<<<"f", "i", "s", "h">>>>],
       [product_id |-> <<"P", "R", "O", "D", "_", "0", "4", "4">>, normalized_name |-> <<"e", "g", "g">>,
        category |-> "Proteins", unit_of_measure |-> "piece",
        aliases_fr |-> <<<<"o", "e", "u", "f">>, <<"o", "e", "u", "f", "s">>>>,
        aliases_en |-> <<<<"e", "g", "g">>, <<"e", "g", "g", "s">>>>],
       [product_id |-> <<"P", "R", "O", "D", "_", "0", "4", "5">>, normalized_name |-> <<"t", "i", "l", "a", "p", "i", "a">>,
        category |-> "Proteins", unit_of_measure |-> "kg",
        aliases_fr |-> <<<<"t", "i", "l", "a", "p", "i", "a">>>>,
        aliases_en |-> <<<<"t", "i", "l", "a", "p", "i", "a">>>>],
       [product_id |-> <<"P", "R", "O", "D", "_", "0", "4", "6">>, normalized_name |-> <<"s", "a", "r", "d", "i", "n", "e">>,
        category |-> "Proteins", unit_of_measure |-> "can",
        aliases_fr |-> <<<<"s", "a", "r", "d", "i", "n", "e">>, <<"s", "a", "r", "d", "i", "n", "e", "s">>>>,
        aliases_en |-> <<<<"s", "a", "r", "d", "i", "n", "e">>, <<"s", "a", "r", "d", "i", "n", "e", "s">>>>],
       [product_id |-> <<"P", "R", "O", "D", "_", "0", "5", "0">>, normalized_name |-> <<"m", "i", "l", "k">>,
        category |-> "Dairy", unit_of_measure |-> "L",
        aliases_fr |-> <<<<"l", "a", "i", "t">>>>,
        aliases_en |-> <<<<"m", "i", "l", "k">>>>],
       [product_id |-> <<"P", "R", "O", "D", "_", "0", "5", "1">>, normalized_name |-> <<"b", "u", "t", "t", "e", "r">>,
        category |-> "Dairy", unit_of_measure |-> "g",
        aliases_fr |-> <<<<"b", "e", "u", "r", "r", "e">>>>,
        aliases_en |-> <<<<"b", "u", "t", "t", "e", "r">>>>],
       [product_id |-> <<"P", "R", "O", "D", "_", "0", "5", "2">>, normalized_name |-> <<"c", "h", "e", "e", "s", "e">>,
        category |-> "Dairy", unit_of_measure |-> "g",
        aliases_fr |-> <<<<"f", "r", "o", "m", "a", "g", "e">>>>,
        aliases_en |-> <<<<"c", "h", "e", "e", "s", "e">>>>],
       [product_id |-> <<"P", "R", "O", "D", "_", "0", "5", "3">>, normalized_name |-> <<"y", "o", "g", "u", "r", "t">>,
        category |-> "Dairy", unit_of_measure |-> "piece",
        aliases_fr |-> <<<<"y", "a", "o", "u", "r", "t">>, <<"y", "o", "g", "o", "u", "r", "t">>>>,
        aliases_en |-> <<<<"y", "o", "g", "u", "r", "t">>, <<"y", "o", "g", "h", "u", "r", "t">>>>],
       [product_id |-> <<"P", "R", "O", "D", "_", "0", "6", "0">>, normalized_name |-> <<"r", "i", "c", "e">>,
        category |-> "Grains", unit_of_measure |-> "kg",
        aliases_fr |-> <<<<"r", "i", "z">>>>,
        aliases_en |-> <<<<"r", "i", "c", "e">>>>],
       [product_id |-> <<"P", "R", "O", "D", "_", "0", "6", "1">>, normalized_name |-> <<"f", "l", "o", "u", "r">>,
        category |-> "Grains", unit_of_measure |-> "kg",
        aliases_fr |-> <<<<"f", "a", "r", "i", "n", "e">>>>,
        aliases_en |-> <<<<"f", "l", "o", "u", "r">>>>],
       [product_id |-> <<"P", "R", "O", "D", "_", "0", "6", "2">>, normalized_name |-> <<"b", "r", "e", "a", "d">>,
        category |-> "Grains", unit_of_measure |-> "piece",
        aliases_fr |-> <<<<"p", "a", "i", "n">>>>,
        aliases_en |-> <<<<"b", "r", "e", "a", "d">>>>],
       [product_id |-> <<"P", "R", "O", "D", "_", "0", "6", "3">>, normalized_name |-> <<"p", "a", "s", "t", "a">>,
        category |-> "Grains", unit_of_measure |-> "kg",
        aliases_fr |-> <<<<"p", "U+00E2", "t", "e", "s">>, <<"s", "p", "a", "g", "h", "e", "t", "t", "i">>, <<"m", "a", "c", "a", "r", "o", "n", "i">>>>,
        aliases_en |-> <<<<"p", "a", "s", "t", "a">>, <<"s", "p", "a", "g", "h", "e", "t", "t", "i">>, <<"m", "a", "c", "a", "r", "o", "n", "i">>>>],
       [product_id |-> <<"P", "R", "O", "D", "_", "0", "6", "4">>, normalized_name |-> <<"c", "o", "r", "n">>,
        category |-> "Grains", unit_of_measure |-> "kg",
        aliases_fr |-> <<<<"m", "a", "U+00EF", "s">>>>,
        aliases_en |-> <<<<"c", "o", "r", "n">>, <<"m", "a", "i", "z", "e">>>>],
       [product_id |-> <<"P", "R", "O", "D", "_", "0", "6", "5">>, normalized_name |-> <<"b", "e", "a", "n", "s">>,
        category |-> "Grains", unit_of_measure |-> "kg",
        aliases_fr |-> <<<<"h", "a", "r", "i", "c", "o", "t", "s">>, <<"h", "a", "r", "i", "c", "o", "t">>>>,
        aliases_en |-> <<<<"b", "e", "a", "n", "s">>, <<"k", "i", "d", "n", "e", "y", " ", "b", "e", "a", "n", "s">>>>],
       [product_id |-> <<"P", "R", "O", "D", "_", "0", "6", "6">>, normalized_name |-> <<"p", "e", "a", "n", "u", "t", "s">>,
        category |-> "Grains", unit_of_measure |-> "kg",
        aliases_fr |-> <<<<"a", "r", "a", "c", "h", "i", "d", "e", "s">>, <<"c", "a", "c", "a", "h", "u", "U+00E8", "t", "e", "s">>>>,
        aliases_en |-> <<<<"p", "e", "a", "n", "u", "t", "s">>, <<"g", "r", "o", "u", "n", "d", "n", "u", "t", "s">>>>],
       [product_id |-> <<"P", "R", "O", "D", "_", "0", "7", "0">>, normalized_name |-> <<"p", "a", "l", "m", "_", "o", "i", "l">>,
        category |-> "Oils", unit_of_measure |-> "L",
        aliases_fr |-> <<<<"h", "u", "i", "l", "e", " ", "d", "e", " ", "p", "a", "l", "m", "e">>, <<"h", "u", "i", "l", "e", " ", "r", "o", "u", "g", "e">>>>,
        aliases_en |-> <<<<"p", "a", "l", "m", " ", "o", "i", "l">>, <<"r", "e", "d", " ", "o", "i", "l">>>>],
       [product_id |-> <<"P", "R", "O", "D", "_", "0", "7", "1">>, normalized_name |-> <<"v", "e", "g", "e", "t", "a", "b", "l", "e", "_", "o", "i", "l">>,
        category |-> "Oils", unit_of_measure |-> "L",
        aliases_fr |-> <<<<"h", "u", "i", "l", "e", " ", "v", "U+00E9", "g", "U+00E9", "t", "a", "l", "e">>, <<"h", "u", "i", "l", "e">>>>,
        aliases_en |-> <<<<"v", "e", "g", "e", "t", "a", "b", "l", "e", " ", "o", "i", "l">>, <<"c", "o", "o", "k", "i", "n", "g", " ", "o", "i", "l">>>>],
       [product_id |-> <<"P", "R", "O", "D", "_", "0", "7", "2">>, normalized_name |-> <<"s", "a", "l", "t">>,
        category |-> "Condiments", unit_of_measure |-> "kg",
        aliases_fr |-> <<<<"s", "e", "l">>>>,
        aliases_en |-> <<<<"s", "a", "l", "t">>>>],
       [product_id |-> <<"P", "R", "O", "D", "_", "0", "7", "3">>, normalized_name |-> <<"s", "u", "g", "a", "r">>,
        category |-> "Condiments", unit_of_measure |-> "kg",
        aliases_fr |-> <<<<"s", "u", "c", "r", "e">>>>,
        aliases_en |-> <<<<"s", "u", "g", "a", "r">>>>],
       [product_id |-> <<"P", "R", "O", "D", "_", "0", "7", "4">>, normalized_name |-> <<"t", "o", "m", "a", "t", "o", "_", "p", "a", "s", "t", "e">>,
        category |-> "Condiments", unit_of_measure |-> "can",
        aliases_fr |-> <<<<"c", "o", "n", "c", "e", "n", "t", "r", "U+00E9", " ", "d", "e", " ", "t", "o", "m", "a", "t", "e">>, <<"p", "U+00E2", "t", "e", " ", "d", "e", " ", "t", "o", "m", "a", "t", "e">>>>,
        aliases_en |-> <<<<"t", "o", "m", "a", "t", "o", " ", "p", "a", "s", "t", "e">>, <<"t", "o", "m", "a", "t", "o", " ", "p", "u", "r", "e", "e">>>>],
       [product_id |-> <<"P", "R", "O", "D", "_", "0", "7", "5">>, normalized_name |-> <<"m", "a", "y", "o", "n", "n", "a", "i", "s", "e">>,
        category |-> "Condiments", unit_of_measure |-> "piece",
        aliases_fr |-> <<<<"m", "a", "y", "o", "n", "n", "a", "i", "s", "e">>, <<"m", "a", "y", "o">>>>,
        aliases_en |-> <<<<"m", "a", "y", "o", "n", "n", "a", "i", "s", "e">>, <<"m", "a", "y", "o">>>>],
       [product_id |-> <<"P", "R", "O", "D", "_", "0", "7", "6">>, normalized_name |-> <<"m", "a", "g", "g", "i">>,
        category |-> "Condiments", unit_of_measure |-> "piece",
        aliases_fr |-> <<<<"m", "a", "g", "g", "i">>, <<"c", "u", "b", "e", " ", "m", "a", "g", "g", "i">>>>,
        aliases_en |-> <<<<"m", "a", "g", "g", "i">>, <<"b", "o", "u", "i", "l", "l", "o", "n", " ", "c", "u", "b", "e">>>>],
       [product_id |-> <<"P", "R", "O", "D", "_", "0", "8", "0">>, normalized_name |-> <<"w", "a", "t", "e", "r">>,
        category |-> "Beverages", unit_of_measure |-> "L",
        aliases_fr |-> <<<<"e", "a", "u">>, <<"e", "a", "u", " ", "m", "i", "n", "U+00E9", "r", "a", "l", "e">>>>,
        aliases_en |-> <<<<"w", "a", "t", "e", "r">>, <<"m", "i", "n", "e", "r", "a", "l", " ", "w", "a", "t", "e", "r">>>>],
       [product_id |-> <<"P", "R", "O", "D", "_", "0", "8", "1">>, normalized_name |-> <<"s", "o", "d", "a">>,
        category |-> "Beverages", unit_of_measure |-> "L",
        aliases_fr |-> <<<<"s", "o", "d", "a">>, <<"b", "o", "i", "s", "s", "o", "n", " ", "g", "a", "z", "e", "u", "s", "e">>>>,
        aliases_en |-> <<<<"s", "o", "d", "a">>, <<"s", "o", "f", "t", " ", "d", "r", "i", "n", "k">>>>],
       [product_id |-> <<"P", "R", "O", "D", "_", "0", "8", "2">>, normalized_name |-> <<"j", "u", "i", "c", "e">>,
        category |-> "Beverages", unit_of_measure |-> "L",
        aliases_fr |-> <<<<"j", "u", "s">>, <<"j", "u", "s", " ", "d", "e", " ", "f", "r", "u", "i", "t">>>>,
        aliases_en |-> <<<<"j", "u", "i", "c", "e">>, <<"f", "r", "u", "i", "t", " ", "j", "u", "i", "c", "e">>>>],
       [product_id |-> <<"P", "R", "O", "D", "_", "0", "8", "3">>, normalized_name |-> <<"b", "e", "e", "r">>,
        category |-> "Beverages", unit_of_measure |-> "piece",
        aliases_fr |-> <<<<"b", "i", "U+00E8", "r", "e">>, <<"p", "r", "i", "m", "u", "s">>, <<"s", "k", "o", "l">>>>,
        aliases_en |-> <<<<"b", "e", "e", "r">>>>],
       [product_id |-> <<"P", "R", "O", "D", "_", "0", "8", "4">>, normalized_name |-> <<"c", "o", "f", "f", "e", "e">>,
        category |-> "Beverages", unit_of_measure |-> "g",
        aliases_fr |-> <<<<"c", "a", "f", "U+00E9">>>>,
        aliases_en |-> <<<<"c", "o", "f", "f", "e", "e">>>>],
       [product_id |-> <<"P", "R", "O", "D", "_", "0", "8", "5">>, normalized_name |-> <<"t", "e", "a">>,
        category |-> "Beverages", unit_of_measure |-> "g",
        aliases_fr |-> <<<<"t", "h", "U+00E9">>>>,
        aliases_en |-> <<<<"t", "e", "a">>>>],
       [product_id |-> <<"P", "R", "O", "D", "_", "0", "9", "0">>, normalized_name |-> <<"s", "o", "a", "p">>,
        category |-> "Hygiene", unit_of_measure |-> "piece",
        aliases_fr |-> <<<<"s", "a", "v", "o", "n">>>>,
        aliases_en |-> <<<<"s", "o", "a", "p">>>>],
       [product_id |-> <<"P", "R", "O", "D", "_", "0", "9", "1">>, normalized_name |-> <<"d", "e", "t", "e", "r", "g", "e", "n", "t">>,
        category |-> "Hygiene", unit_of_measure |-> "kg",
        aliases_fr |-> <<<<"d", "U+00E9", "t", "e", "r", "g", "e", "n", "t">>, <<"o", "m", "o">>, <<"a", "r", "i", "e", "l">>>>,
        aliases_en |-> <<<<"d", "e", "t", "e", "r", "g", "e", "n", "t">>, <<"w", "a", "s", "h", "i", "n", "g", " ", "p", "o", "w", "d", "e", "r">>>>],
       [product_id |-> <<"P", "R", "O", "D", "_", "0", "9", "2">>, normalized_name |-> <<"t", "o", "o", "t", "h", "p", "a", "s", "t", "e">>,
        category |-> "Hygiene", unit_of_measure |-> "piece",
        aliases_fr |-> <<<<"d", "e", "n", "t", "i", "f", "r", "i", "c", "e">>>>,
        aliases_en |-> <<<<"t", "o", "o", "t", "h", "p", "a", "s", "t", "e">>>>],
       [product_id |-> <<"P", "R", "O", "D", "_", "0", "9", "3">>, normalized_name |-> <<"t", "o", "i", "l", "e", "t", "_", "p", "a", "p", "e", "r">>,
        category |-> "Hygiene", unit_of_measure |-> "roll",
        aliases_fr |-> <<<<"p", "a", "p", "i", "e", "r", " ", "t", "o", "i", "l", "e", "t", "t", "e">>, <<"p", "a", "p", "i", "e", "r", " ", "h", "y", "g", "i", "U+00E9", "n", "i", "q", "u", "e">>>>,
        aliases_en |-> <<<<"t", "o", "i", "l", "e", "t", " ", "p", "a", "p", "e", "r">>, <<"t", "o", "i", "l", "e", "t", " ", "r", "o", "l", "l">>>>],
       [product_id |-> <<"P", "R", "O", "D", "_", "0", "9", "4">>, normalized_name |-> <<"d", "i", "a", "p", "e", "r", "s">>,
        category |-> "Baby", unit_of_measure |-> "pack",
        aliases_fr |-> <<<<"c", "o", "u", "c", "h", "e", "s">>, <<"p", "a", "m", "p", "e", "r", "s">>>>,
        aliases_en |-> <<<<"d", "i", "a", "p", "e", "r", "s">>, <<"n", "a", "p", "p", "i", "e", "s">>, <<"p", "a", "m", "p", "e", "r", "s">>>>] >>

(***************************************************************************)
(* What callers pass in, and what the collaborators return.                *)
(***************************************************************************)
TomatesFraiches == <<"T", "o", "m", "a", "t", "e", "s", " ", "f", "r", "a", "i", "c", "h", "e", "s">>

PlantainBanane == <<"P", "l", "a", "n", "t", "a", "i", "n", " ", "b", "a", "n", "a", "n", "e">>

PlantainBananaBanana ==
    <<"P", "l", "a", "n", "t", "a", "i", "n", " ", "b", "a", "n", "a", "n", "a", " ",
      "b", "a", "n", "a", "n", "a">>

BnnPltn == <<"B", "N", "N", " ", "P", "L", "T", "N">>

Xyz == <<"X", "Y", "Z">>

BananePlantain == <<"B", "a", "n", "a", "n", "e", " ", "p", "l", "a", "n", "t", "a", "i", "n">>

The == <<"T", "h", "U+00E9">>

\* texts the translator behaviours return
Tomato == <<"T", "o", "m", "a", "t", "o">>

FreshTomatoes == <<"f", "r", "e", "s", "h", " ", "t", "o", "m", "a", "t", "o", "e", "s">>

Tomates == <<"t", "o", "m", "a", "t", "e", "s">>

PlantainMurMur ==
    <<"P", "l", "a", "n", "t", "a", "i", "n", " ", "m", "U+00FB", "r", " ", "m", "U+00FB", "r">>

\* raw names callers pass to normalize
RawNames ==
    {None, <<>>, <<" ", " ">>, Xyz, The, BnnPltn, BananePlantain, TomatesFraiches,
     PlantainBanane, PlantainBananaBanana, PlantainMurMur}

\* a receipt line an operator mapped to the tomato record, and the line of a
\* later receipt that lacks its last letter
TomateBioTomates ==
    <<"T", "o", "m", "a", "t", "e", " ", "b", "i", "o", " ", "t", "o", "m", "a", "t", "e", "s">>

TomateBioTomate ==
    <<"T", "o", "m", "a", "t", "e", " ", "b", "i", "o", " ", "t", "o", "m", "a", "t", "e">>

\* another line an operator mapped to the tomato record, and a later line
\* that shares two of its words
BioLaiJussThonRizSels ==
    <<"B", "i", "o", " ", "l", "a", "i", " ", "j", "u", "s", "s", " ", "t", "h", "o", "n", " ",
      "r", "i", "z", " ", "s", "e", "l", "s">>

LaitJusThonRizSel ==
    <<"L", "a", "i", "t", " ", "j", "u", "s", " ", "t", "h", "o", "n", " ", "r", "i", "z", " ",
      "s", "e", "l">>

\* what callers pass to learn_mapping
LearnNames == {None, The, Xyz}

LearnIds == {None, <<>>, <<"P", "R", "O", "D", "_", "9", "9", "9">>,
             <<"P", "R", "O", "D", "_", "0", "2", "0">>}

ShopIds == {None, <<"s", "1">>}

\* what callers pass to add_product: name, aliases_fr, aliases_en
NewProducts ==
    {<<<<"K", "w", "a", "n", "g", "a">>,
       <<<<"b", "a", "n", "a", "n", "e", " ", "p", "l", "a", "n", "t", "a", "i", "n">>, Xyz>>,
       None>>}

\* what callers pass to search_products: query and limit
BananaTomato == <<"b", "a", "n", "a", "n", "a", " ", "t", "o", "m", "a", "t", "o">>

TomatoesBananeKinshasaConcentre ==
    <<"t", "o", "m", "a", "t", "o", "e", "s", " ", "b", "a", "n", "a", "n", "e", " ",
      "k", "i", "n", "s", "h", "a", "s", "a", " ", "c", "o", "n", "c", "e", "n", "t", "r", "e">>

SearchQueries == {<<>>, Xyz, The, BananaTomato, TomatoesBananeKinshasaConcentre}

\* the items callers pass to normalize_batch: dicts with a name, with no name
\* and with a normalization already
BatchItems ==
    {<<[k |-> "name", v |-> BananePlantain], [k |-> "price", v |-> 2]>>,
     <<[k |-> "price", v |-> 1]>>,
     <<[k |-> "normalization", v |-> None], [k |-> "name", v |-> TomatesFraiches]>>}

\* a master_products.json with three of the records of the default catalog
\* (plantain, tomato, tea)
CatalogRows == <<1, 11, 52>>

CatalogFile == [n \in DOMAIN CatalogRows |-> DEFAULT_MASTER_PRODUCTS[CatalogRows[n]]]

\* the names and aliases of the records of a catalog
CatalogNames(products) ==
    UNION {{products[i].normalized_name} \cup Range(products[i].aliases_fr)
              \cup Range(products[i].aliases_en) : i \in DOMAIN products}

(***************************************************************************)
(* clean_text, expand_abbreviations and combined_similarity are functions  *)
(* of their arguments alone.  Their values on the texts above are computed *)
(* once, by the statements of the source, and looked up afterwards; any    *)
(* other argument is computed where it is used.                            *)
(***************************************************************************)
RawTexts ==
    RawNames \cup CatalogNames(CatalogFile) \cup {Tomato, FreshTomatoes, Tomates}
        \cup SearchQueries
        \cup UNION {{p[1], str_lower(p[1])} \cup Range(p[2]) : p \in NewProducts}
        \cup {<<"x", "y", "z">>, <<"x", "y", "z", "|", "s", "1">>}

CleanTextTable == [text \in RawTexts |-> clean_text_steps(text)]

clean_text(text) == memo(CleanTextTable, text, clean_text_steps(text))

RECURSIVE expand_words(_, _)
expand_words(words, i) ==
    IF i > Len(words) THEN <<>>
    ELSE IF i < Len(words) /\ InAbbreviationMap(words[i] \o <<" ">> \o words[i + 1])
         THEN <<AbbreviationOf(words[i] \o <<" ">> \o words[i + 1])>>
                  \o expand_words(words, i + 2)
         ELSE IF InAbbreviationMap(words[i])
              THEN <<AbbreviationOf(words[i])>> \o expand_words(words, i + 1)
              ELSE <<words[i]>> \o expand_words(words, i + 1)

\* lines 404-429, on the cleaned text
expand_cleaned(cleaned) ==
    IF InAbbreviationMap(cleaned)
    THEN AbbreviationOf(cleaned)
    ELSE str_join(expand_words(str_split(cleaned, <<>>), 1))

\* the statements of expand_abbreviations (lines 402-429)
expand_abbreviations_steps(text) == expand_cleaned(clean_text_steps(text))

ExpandTable == [text \in RawNames \ {None} |-> expand_abbreviations_steps(text)]

expand_abbreviations(text) == memo(ExpandTable, text, expand_abbreviations_steps(text))

(***************************************************************************)
(* Similarity scorers.  A score is the exact rational n / d.               *)
(***************************************************************************)
Rat(n, d) == [n |-> n, d |-> d]

RatLess(x, y) == x.n * y.d < y.n * x.d

RatLeq(x, y) == x.n * y.d <= y.n * x.d

SetMax(S) == CHOOSE x \in S : \A y \in S : y <= x

SetMin(S) == CHOOSE x \in S : \A y \in S : x <= y

\* length of the common run of a[i..ahi] and b[j..bhi]
RECURSIVE CommonRun(_, _, _, _, _, _)
CommonRun(a, b, i, j, ahi, bhi) ==
    IF i > ahi \/ j > bhi THEN 0
    ELSE IF a[i] # b[j] THEN 0
    ELSE 1 + CommonRun(a, b, i + 1, j + 1, ahi, bhi)

\* the common blocks <<i, j, k>> of a[alo..ahi] and b[blo..bhi], each as long as
\* it can be from its start
common_blocks(a, b, alo, ahi, blo, bhi) ==
    {<<p[1], p[2], CommonRun(a, b, p[1], p[2], ahi, bhi)>> :
        p \in {q \in (alo..ahi) \X (blo..bhi) : a[q[1]] = b[q[2]]}}

\* the longest block; of those the one starting earliest in a, and of those the
\* one starting earliest in b
first_longest(blocks) ==
    CHOOSE m \in blocks : \A n \in blocks :
        \/ m[3] > n[3]
        \/ m[3] = n[3] /\ m[1] < n[1]
        \/ m[3] = n[3] /\ m[1] = n[1] /\ m[2] <= n[2]

longest_or_none(blocks, alo, blo) ==
    IF blocks = {} THEN <<alo, blo, 0>> ELSE first_longest(blocks)

\* SequenceMatcher.find_longest_match on a[alo..ahi], b[blo..bhi] (no junk):
\* <<i, j, k>>, k = 0 when there is no common character
find_longest_match(a, b, alo, ahi, blo, bhi) ==
    longest_or_none(common_blocks(a, b, alo, ahi, blo, bhi), alo, blo)

\* SequenceMatcher.get_matching_blocks, summed: the number of matched characters
RECURSIVE matched_characters(_, _, _, _, _, _)
RECURSIVE matched_around(_, _, _, _, _, _, _)
matched_around(a, b, alo, ahi, blo, bhi, m) ==
    IF m[3] = 0 THEN 0
    ELSE m[3]
         + matched_characters(a, b, alo, m[1] - 1, blo, m[2] - 1)
         + matched_characters(a, b, m[1] + m[3], ahi, m[2] + m[3], bhi)

matched_characters(a, b, alo, ahi, blo, bhi) ==
    IF alo > ahi \/ blo > bhi THEN 0
    ELSE matched_around(a, b, alo, ahi, blo, bhi,
                        find_longest_match(a, b, alo, ahi, blo, bhi))

\* SequenceMatcher(None, s1, s2).ratio() == 2.0 * matches / (len(s1) + len(s2))
levenshtein_similarity(s1, s2) ==
    IF s1 = <<>> \/ s2 = <<>> THEN Rat(0, 1)
    ELSE Rat(2 * matched_characters(s1, s2, 1, Len(s1), 1, Len(s2)), Len(s1) + Len(s2))

\* len(intersection) / len(union) if union else 0.0
set_ratio(set1, set2) ==
    IF set1 \cup set2 = {} THEN Rat(0, 1)
    ELSE Rat(Cardinality(set1 \cap set2), Cardinality(set1 \cup set2))

jaccard_similarity(s1, s2) ==
    IF s1 = <<>> \/ s2 = <<>> THEN Rat(0, 1)
    ELSE set_ratio(Range(str_split(s1, <<>>)), Range(str_split(s2, <<>>)))

\* the default weights of combined_similarity, in tenths
LevenshteinWeight == 6

JaccardWeight == 4

\* a sum that gives each score the weight of the other
weighted_sum_swapped(lev_score, jac_score) ==
    Rat(JaccardWeight * lev_score.n * jac_score.d
          + LevenshteinWeight * jac_score.n * lev_score.d,
        10 * lev_score.d * jac_score.d)

\* (0.6 * lev_score) + (0.4 * jac_score)
weighted_sum(lev_score, jac_score) ==
    Rat(LevenshteinWeight * lev_score.n * jac_score.d
          + JaccardWeight * jac_score.n * lev_score.d,
        10 * lev_score.d * jac_score.d)

\* the statements of combined_similarity (lines 497-500)
combined_similarity_steps(s1, s2) ==
    weighted_sum(levenshtein_similarity(s1, s2), jaccard_similarity(s1, s2))

\* half of the denominator compared with the remainder r of the division by d
round_half_even(q, r, d) ==
    IF 2 * r > d THEN q + 1
    ELSE IF 2 * r < d THEN q
    ELSE IF q % 2 = 0 THEN q ELSE q + 1

\* round(x, 3), in thousandths (ties to even)
round3(x) == round_half_even((1000 * x.n) \div x.d, (1000 * x.n) % x.d, x.d)

\* the texts normalize searches for, and the index keys it compares them with
SearchTexts ==
    {clean_text_steps(t) : t \in RawNames \cup {Tomato, FreshTomatoes, Tomates} \cup SearchQueries}

KeyTexts == {clean_text_steps(t) : t \in RawTexts}

SimilarityTable ==
    [s1 \in SearchTexts |-> [s2 \in KeyTexts |-> combined_similarity_steps(s1, s2)]]

\* the same for the index keys of the default catalog
DefaultKeyTexts == {clean_text_steps(t) : t \in CatalogNames(DEFAULT_MASTER_PRODUCTS)}

DefaultSimilarityTable ==
    [s1 \in SearchTexts |-> [s2 \in DefaultKeyTexts |-> combined_similarity_steps(s1, s2)]]

combined_similarity(s1, s2) ==
    memo2(SimilarityTable, s1, s2,
          memo2(DefaultSimilarityTable, s1, s2, combined_similarity_steps(s1, s2)))

(***************************************************************************)
(* Dicts, as the sequence of their items [k, v] in insertion order.        *)
(***************************************************************************)
dict_has(d, key) == \E i \in DOMAIN d : d[i].k = key

dict_get(d, key) == d[CHOOSE i \in DOMAIN d : d[i].k = key].v

\* d[key] = value: an existing key keeps its place, a new key goes last
dict_set(d, key, value) ==
    IF dict_has(d, key)
    THEN [i \in DOMAIN d |-> IF d[i].k = key THEN [k |-> key, v |-> value] ELSE d[i]]
    ELSE Append(d, [k |-> key, v |-> value])

dict_keys(d) == {d[i].k : i \in DOMAIN d}

\* d after the assignments d[w.k] = w.v for w in writes, in order
RECURSIVE dict_update(_, _)
dict_update(d, writes) ==
    IF writes = <<>> THEN d
    ELSE dict_set(dict_update(d, SubSeq(writes, 1, Len(writes) - 1)),
                  writes[Len(writes)].k, writes[Len(writes)].v)

(***************************************************************************)
(* The collaborators.  translator (module translator) and SemanticMatcher  *)
(* (module embeddings) are imported, not defined, by the source; here each *)
(* is one of a few fixed behaviours, and a call either returns or raises.  *)
(***************************************************************************)
\* the outcome of a call of a collaborator
Returns(value) == [raised |-> FALSE, value |-> value]

Raises == [raised |-> TRUE, value |-> None]

\* TRANSLATION_AVAILABLE is FALSE for "unavailable"
TranslatorKinds == {"unavailable", "pivot", "variants", "pivot_raises", "variants_raises"}

\* translator.normalize_to_pivot(text, pivot_language='en')
normalize_to_pivot(tr, text) ==
    CASE tr = "pivot_raises" -> Raises
      [] tr = "pivot" /\ text = TomatesFraiches -> Returns(Tomato)
      [] OTHER -> Returns(text)

\* translator.get_all_variants(text)
get_all_variants(tr, text) ==
    CASE tr = "variants_raises" -> Raises
      [] tr = "variants" /\ text = TomatesFraiches ->
            Returns(<<text, FreshTomatoes, Tomates>>)
      [] tr = "variants" /\ text = PlantainBanane ->
            Returns(<<text, PlantainBananaBanana>>)
      [] OTHER -> Returns(<<text>>)

\* self.semantic_matcher is None for "none"
SemanticKinds == {"none", "low", "tea", "raises", "flaky", "graded"}

\* self.semantic_matcher.similarity(search_text, indexed_text)
semantic_similarity(sem, search_text, indexed_text) ==
    CASE sem = "raises" -> Raises
      [] sem = "flaky" /\ indexed_text = <<"t", "o", "m", "a", "t", "o">> -> Raises
      [] sem = "low" -> Returns(Rat(3, 10))
      [] sem = "graded" -> Returns(Rat(45 + Len(indexed_text), 100))
      [] sem \in {"tea", "flaky"} /\ indexed_text = <<"t", "e", "a">> -> Returns(Rat(19, 20))
      [] sem \in {"tea", "flaky"} /\ indexed_text = <<"t", "o", "m", "a", "t", "e">> -> Returns(Rat(7, 10))
      [] OTHER -> Returns(Rat(1, 10))

(***************************************************************************)
(* The catalog index.                                                      *)
(***************************************************************************)
\* the first record with this product_id, as <<record>>; <<>> for None
_get_product_by_id(products, product_id) ==
    IF \E i \in DOMAIN products : products[i].product_id = product_id
    THEN <<products[SetMin({i \in DOMAIN products : products[i].product_id = product_id})]>>
    ELSE <<>>

\* the assignments index[clean_text(text)] = product_id for text in texts
index_writes(texts, product_id) ==
    [i \in DOMAIN texts |-> [k |-> clean_text(texts[i]), v |-> product_id]]

\* a loop over the products that passes over aliases_en
product_writes_without_en(product) ==
    index_writes(<<product.normalized_name>> \o product.aliases_fr, product.product_id)

\* The assignments that one pass of the loop over master_products["products"]
\* makes, in order: for the name, for aliases_fr, for aliases_en.
product_writes(product) ==
    index_writes(<<product.normalized_name>> \o product.aliases_fr \o product.aliases_en,
                 product.product_id)

\* the assignments of the passes for products[lo..hi], in order
RECURSIVE catalog_writes(_, _, _)
catalog_writes(products, lo, hi) ==
    IF lo > hi THEN <<>>
    ELSE IF lo = hi THEN product_writes(products[lo])
    ELSE catalog_writes(products, lo, (lo + hi) \div 2)
         \o catalog_writes(products, ((lo + hi) \div 2) + 1, hi)

\* the assignment the loop over product_mappings.items() makes for one item
mapping_write(item) == [k |-> clean_text(item.k), v |-> item.v]

mapping_writes(mappings) == [i \in DOMAIN mappings |-> mapping_write(mappings[i])]

\* The dict that the assignments d[w.k] = w.v leave in an empty dict: a key
\* stands where it was first assigned and holds what it was last assigned.
first_writes(numbered, writes) ==
    SelectSeq(numbered, LAMBDA w : \A j \in 1..(w.i - 1) : writes[j].k # w.k)

last_write(writes, key) == writes[SetMax({j \in DOMAIN writes : writes[j].k = key})]

settled(firsts, writes) ==
    [n \in DOMAIN firsts |-> [k |-> firsts[n].k, v |-> last_write(writes, firsts[n].k).v]]

dict_of(writes) ==
    settled(first_writes([i \in DOMAIN writes |-> [i |-> i, k |-> writes[i].k]], writes), writes)

\* a rebuild that applies the learned mappings before the catalog
all_writes_mappings_first(products, mappings) ==
    mapping_writes(mappings) \o catalog_writes(products, 1, Len(products))

all_writes(products, mappings) ==
    catalog_writes(products, 1, Len(products)) \o mapping_writes(mappings)

_build_product_index(products, mappings) == dict_of(all_writes(products, mappings))

(***************************************************************************)
(* normalize: the matching cascade.  Confidences are in thousandths, the   *)
(* thresholds in hundredths.                                               *)
(***************************************************************************)
ExactConfidence == 1000

TranslationConfidence == 980

VariantConfidence == 960

AbbreviationConfidence == 950

ConfidentThreshold == 85

ReviewThreshold == 60

SuggestionThreshold == 50

SemanticGate == 90

SemanticWeight == 90

MaxSuggestions == 5

MatchResult(product_id, normalized_name, confidence, match_method, needs_review, suggestions) ==
    [product_id |-> product_id, normalized_name |-> normalized_name,
     confidence |-> confidence, match_method |-> match_method,
     needs_review |-> needs_review, suggestions |-> suggestions]

\* a call of normalize that returned: its result, the collaborator calls it made in
\* order, and the locals best_score, best_match of the similarity stage if it ran
Returned(result, calls, scanned, best_score, best_match) ==
    [raised |-> FALSE, result |-> result, calls |-> calls,
     scanned |-> scanned, best_score |-> best_score, best_match |-> best_match]

\* a call of normalize that an exception left
Propagated(calls) ==
    [raised |-> TRUE, result |-> MatchResult(None, None, 0, "<exception>", FALSE, <<>>),
     calls |-> calls, scanned |-> FALSE, best_score |-> Rat(0, 1), best_match |-> None]

\* product["normalized_name"] if product else fallback
name_or(products, product_id, fallback) ==
    LET product == _get_product_by_id(products, product_id)
    IN  IF product # <<>> THEN product[1].normalized_name ELSE fallback

\* the result of a stage that found key in the index
stage_hit(index, products, key, confidence, match_method, calls) ==
    Returned(MatchResult(dict_get(index, key), name_or(products, dict_get(index, key), key),
                         confidence, match_method, FALSE, <<>>),
             calls, FALSE, Rat(0, 1), None)

suggested(suggestions, product_id) ==
    \E i \in DOMAIN suggestions : suggestions[i].product_id = product_id

\* One pass of the loops of lines 619-637, for (search_text, index item): the
\* score that competes for best_score and the score that makes a suggestion.
scored_pair(item, score) ==
    [product_id |-> item.v, indexed_text |-> item.k, raised |-> FALSE,
     weighted |-> score, score |-> score, semantic |-> FALSE]

lexical_pair(search_text, item) == scored_pair(item, combined_similarity(search_text, item.k))

\* a pass of the semantic loops that compares the score as the matcher gave it
semantic_scored_pair_unweighted(item, call) ==
    IF call.raised
    THEN [product_id |-> item.v, indexed_text |-> item.k, raised |-> TRUE,
          weighted |-> Rat(0, 1), score |-> Rat(0, 1), semantic |-> TRUE]
    ELSE [product_id |-> item.v, indexed_text |-> item.k, raised |-> FALSE,
          weighted |-> call.value, score |-> call.value, semantic |-> TRUE]

\* One pass of the loops of lines 642-664, for (index item, search_text); the
\* except clause leaves a pass whose similarity call raised without any effect.
semantic_scored_pair(item, call) ==
    IF call.raised
    THEN [product_id |-> item.v, indexed_text |-> item.k, raised |-> TRUE,
          weighted |-> Rat(0, 1), score |-> Rat(0, 1), semantic |-> TRUE]
    ELSE [product_id |-> item.v, indexed_text |-> item.k, raised |-> FALSE,
          weighted |-> Rat(call.value.n * SemanticWeight, call.value.d * 100),
          score |-> call.value, semantic |-> TRUE]

semantic_pair(sem, search_text, item) ==
    semantic_scored_pair(item, semantic_similarity(sem, search_text, item.k))

\* passes lo..hi (from 0) of: for search_text in search_variants: for item in index
RECURSIVE lexical_pairs(_, _, _, _)
lexical_pairs(variants, index, lo, hi) ==
    IF lo > hi THEN <<>>
    ELSE IF lo = hi
    THEN <<lexical_pair(variants[(lo \div Len(index)) + 1], index[(lo % Len(index)) + 1])>>
    ELSE lexical_pairs(variants, index, lo, (lo + hi) \div 2)
         \o lexical_pairs(variants, index, ((lo + hi) \div 2) + 1, hi)

\* passes lo..hi (from 0) of: for item in index: for search_text in search_variants
RECURSIVE semantic_pairs(_, _, _, _, _)
semantic_pairs(sem, variants, index, lo, hi) ==
    IF lo > hi THEN <<>>
    ELSE IF lo = hi
    THEN <<semantic_pair(sem, variants[(lo % Len(variants)) + 1],
                         index[(lo \div Len(variants)) + 1])>>
    ELSE semantic_pairs(sem, variants, index, lo, (lo + hi) \div 2)
         \o semantic_pairs(sem, variants, index, ((lo + hi) \div 2) + 1, hi)

\* a scan that keeps, for a product, its best pass over the suggestion threshold
scan_keeping_best(acc, pairs, products) ==
    LET ran == {i \in DOMAIN pairs : ~pairs[i].raised}
        top == CHOOSE i \in ran :
                    /\ \A j \in ran : RatLeq(pairs[j].weighted, pairs[i].weighted)
                    /\ \A j \in ran : j < i => RatLess(pairs[j].weighted, pairs[i].weighted)
        better == ran # {} /\ RatLess(acc.best_score, pairs[top].weighted)
        suggests(i) == i \in ran /\ RatLess(Rat(SuggestionThreshold, 100), pairs[i].score)
        numbered == [i \in DOMAIN pairs |-> [i |-> i, product_id |-> pairs[i].product_id]]
        fresh == SelectSeq(numbered, LAMBDA p :
                    /\ suggests(p.i)
                    /\ ~suggested(acc.suggestions, p.product_id)
                    /\ \A j \in DOMAIN pairs :
                          (suggests(j) /\ pairs[j].product_id = p.product_id /\ j # p.i) =>
                              \/ RatLess(pairs[j].score, pairs[p.i].score)
                              \/ (RatLeq(pairs[j].score, pairs[p.i].score) /\ j > p.i))
        suggestion(i) ==
            IF pairs[i].semantic
            THEN [product_id |-> pairs[i].product_id,
                  normalized_name |-> name_or(products, pairs[i].product_id,
                                              pairs[i].indexed_text),
                  score |-> round3(pairs[i].score), method |-> "semantic"]
            ELSE [product_id |-> pairs[i].product_id,
                  normalized_name |-> name_or(products, pairs[i].product_id,
                                              pairs[i].indexed_text),
                  score |-> round3(pairs[i].score)]
    IN  [best_score |-> IF better THEN pairs[top].weighted ELSE acc.best_score,
         best_match |-> IF better THEN <<pairs[top].product_id, pairs[top].indexed_text>>
                        ELSE acc.best_match,
         suggestions |-> acc.suggestions \o [n \in DOMAIN fresh |-> suggestion(fresh[n].i)]]

\* The locals best_score, best_match and suggestions after the passes `pairs`, run
\* in order from `acc`.  best_score is replaced only by a strictly greater score, so
\* it ends as the greatest score if that exceeds the start, with the first pass that
\* reached it as best_match; a product is suggested by its first pass over the
\* suggestion threshold unless it is suggested already.
scan(acc, pairs, products) ==
    LET ran == {i \in DOMAIN pairs : ~pairs[i].raised}
        top == CHOOSE i \in ran :
                    /\ \A j \in ran : RatLeq(pairs[j].weighted, pairs[i].weighted)
                    /\ \A j \in ran : j < i => RatLess(pairs[j].weighted, pairs[i].weighted)
        better == ran # {} /\ RatLess(acc.best_score, pairs[top].weighted)
        suggests(i) == i \in ran /\ RatLess(Rat(SuggestionThreshold, 100), pairs[i].score)
        numbered == [i \in DOMAIN pairs |-> [i |-> i, product_id |-> pairs[i].product_id]]
        fresh == SelectSeq(numbered, LAMBDA p :
                    /\ suggests(p.i)
                    /\ ~suggested(acc.suggestions, p.product_id)
                    /\ \A j \in 1..(p.i - 1) :
                          ~(suggests(j) /\ pairs[j].product_id = p.product_id))
        suggestion(i) ==
            IF pairs[i].semantic
            THEN [product_id |-> pairs[i].product_id,
                  normalized_name |-> name_or(products, pairs[i].product_id,
                                              pairs[i].indexed_text),
                  score |-> round3(pairs[i].score), method |-> "semantic"]
            ELSE [product_id |-> pairs[i].product_id,
                  normalized_name |-> name_or(products, pairs[i].product_id,
                                              pairs[i].indexed_text),
                  score |-> round3(pairs[i].score)]
    IN  [best_score |-> IF better THEN pairs[top].weighted ELSE acc.best_score,
         best_match |-> IF better THEN <<pairs[top].product_id, pairs[top].indexed_text>>
                        ELSE acc.best_match,
         suggestions |-> acc.suggestions \o [n \in DOMAIN fresh |-> suggestion(fresh[n].i)]]

\* suggestions.sort(key=score, reverse=True): stable, so equal scores keep their order
sort_suggestions(suggestions) ==
    LET place == [i \in DOMAIN suggestions |->
                    1 + Cardinality({j \in DOMAIN suggestions :
                            \/ suggestions[j].score > suggestions[i].score
                            \/ suggestions[j].score = suggestions[i].score /\ j < i})]
    IN  [n \in DOMAIN suggestions |->
            suggestions[CHOOSE i \in DOMAIN suggestions : place[i] = n]]

\* suggestions that are not cut to the top five
top_suggestions_uncut(suggestions) == suggestions

\* suggestions[:5]
top_suggestions(suggestions) ==
    SubSeq(suggestions, 1, IF Len(suggestions) < MaxSuggestions
                           THEN Len(suggestions) ELSE MaxSuggestions)

\* a decision whose confident band begins at the review threshold
threshold_decision_one_band(cleaned, products, scanned, suggestions, calls) ==
    IF RatLeq(Rat(ReviewThreshold, 100), scanned.best_score) /\ scanned.best_match # None
    THEN Returned(MatchResult(scanned.best_match[1],
                              name_or(products, scanned.best_match[1], scanned.best_match[2]),
                              round3(scanned.best_score), "similarity", FALSE, <<>>),
                  calls, TRUE, scanned.best_score, scanned.best_match)
    ELSE Returned(MatchResult(None, cleaned,
                              IF scanned.best_score.n > 0 THEN round3(scanned.best_score) ELSE 0,
                              "none", TRUE, suggestions),
                  calls, TRUE, scanned.best_score, scanned.best_match)

\* a decision that compares the score rounded to three decimals with the thresholds
threshold_decision_on_rounded(cleaned, products, scanned, suggestions, calls) ==
    IF round3(scanned.best_score) >= 10 * ConfidentThreshold /\ scanned.best_match # None
    THEN Returned(MatchResult(scanned.best_match[1],
                              name_or(products, scanned.best_match[1], scanned.best_match[2]),
                              round3(scanned.best_score), "similarity", FALSE, <<>>),
                  calls, TRUE, scanned.best_score, scanned.best_match)
    ELSE IF round3(scanned.best_score) >= 10 * ReviewThreshold /\ scanned.best_match # None
    THEN Returned(MatchResult(scanned.best_match[1],
                              name_or(products, scanned.best_match[1], scanned.best_match[2]),
                              round3(scanned.best_score), "similarity_low", TRUE, suggestions),
                  calls, TRUE, scanned.best_score, scanned.best_match)
    ELSE Returned(MatchResult(None, cleaned,
                              IF scanned.best_score.n > 0 THEN round3(scanned.best_score) ELSE 0,
                              "none", TRUE, suggestions),
                  calls, TRUE, scanned.best_score, scanned.best_match)

\* Priority 5 (lines 670-701)
threshold_decision(cleaned, products, scanned, suggestions, calls) ==
    IF RatLeq(Rat(ConfidentThreshold, 100), scanned.best_score) /\ scanned.best_match # None
    THEN Returned(MatchResult(scanned.best_match[1],
                              name_or(products, scanned.best_match[1], scanned.best_match[2]),
                              round3(scanned.best_score), "similarity", FALSE, <<>>),
                  calls, TRUE, scanned.best_score, scanned.best_match)
    ELSE IF RatLeq(Rat(ReviewThreshold, 100), scanned.best_score) /\ scanned.best_match # None
    THEN Returned(MatchResult(scanned.best_match[1],
                              name_or(products, scanned.best_match[1], scanned.best_match[2]),
                              round3(scanned.best_score), "similarity_low", TRUE, suggestions),
                  calls, TRUE, scanned.best_score, scanned.best_match)
    ELSE Returned(MatchResult(None, cleaned,
                              IF scanned.best_score.n > 0 THEN round3(scanned.best_score) ELSE 0,
                              "none", TRUE, suggestions),
                  calls, TRUE, scanned.best_score, scanned.best_match)

\* lines 666-701, from the locals the loops left
normalize_decision(cleaned, products, scanned, calls) ==
    threshold_decision(cleaned, products, scanned,
                       top_suggestions(sort_suggestions(scanned.suggestions)), calls)

\* Phase 3.2 (lines 639-664), from the locals the lexical loops left
normalize_semantic(cleaned, index, products, sem, calls, variants, lexical) ==
    IF sem # "none" /\ RatLess(lexical.best_score, Rat(SemanticGate, 100))
    THEN normalize_decision(cleaned, products,
                            scan(lexical,
                                 semantic_pairs(sem, variants, index, 0,
                                                Len(variants) * Len(index) - 1),
                                 products),
                            calls \o [n \in 1..(Len(variants) * Len(index)) |-> "similarity"])
    ELSE normalize_decision(cleaned, products, lexical, calls)

\* the loops of lines 619-637 over search_variants
normalize_lexical(cleaned, index, products, sem, calls, variants) ==
    normalize_semantic(cleaned, index, products, sem, calls, variants,
                       scan([best_score |-> Rat(0, 1), best_match |-> None,
                             suggestions |-> <<>>],
                            lexical_pairs(variants, index, 0, Len(variants) * Len(index) - 1),
                            products))

\* search_variants: cleaned, then each new clean_text(variant), first seen first
RECURSIVE search_variants(_, _)
search_variants(found, variants) ==
    IF variants = <<>> THEN found
    ELSE search_variants(IF clean_text(Head(variants)) \in Range(found) THEN found
                         ELSE Append(found, clean_text(Head(variants))),
                         Tail(variants))

\* Priority 4 (lines 605-637), given what the call of line 613 did
normalize_variants(cleaned, index, products, sem, calls, call) ==
    IF call.raised THEN Propagated(calls)
    ELSE normalize_lexical(cleaned, index, products, sem, calls,
                           search_variants(<<cleaned>>, call.value))

normalize_similarity(raw_name, cleaned, index, products, tr, sem, calls) ==
    IF tr = "unavailable"
    THEN normalize_variants(cleaned, index, products, sem, calls, Returns(<<>>))
    ELSE normalize_variants(cleaned, index, products, sem, Append(calls, "get_all_variants"),
                            get_all_variants(tr, raw_name))

\* Priority 3 (lines 590-603)
normalize_abbreviation(raw_name, cleaned, expanded, index, products, tr, sem, calls) ==
    IF expanded # cleaned /\ dict_has(index, clean_text(expanded))
    THEN stage_hit(index, products, clean_text(expanded), AbbreviationConfidence,
                   "abbreviation", calls)
    ELSE normalize_similarity(raw_name, cleaned, index, products, tr, sem, calls)

\* the first variant whose clean_text is an index key, as <<key>>; <<>> if none
RECURSIVE first_variant_hit(_, _)
first_variant_hit(variants, index) ==
    IF variants = <<>> THEN <<>>
    ELSE IF dict_has(index, clean_text(Head(variants)))
         THEN <<clean_text(Head(variants))>>
         ELSE first_variant_hit(Tail(variants), index)

\* a stage that returned `out`, and a stage that missed after making `calls`
Decided(out) == [decided |-> TRUE, out |-> out, calls |-> out.calls]

Missed(calls) == [decided |-> FALSE, out |-> Propagated(calls), calls |-> calls]

\* lines 574-588, given what the call of line 575 did
translation_variants(index, products, call, hit) ==
    IF call.raised THEN Decided(Propagated(<<"normalize_to_pivot", "get_all_variants">>))
    ELSE IF hit # <<>>
    THEN Decided(stage_hit(index, products, hit[1], VariantConfidence, "translation_variant",
                           <<"normalize_to_pivot", "get_all_variants">>))
    ELSE Missed(<<"normalize_to_pivot", "get_all_variants">>)

\* lines 560-588, given the text the call of line 559 returned
translation_pivot(raw_name, cleaned, translated_cleaned, index, products, tr) ==
    IF translated_cleaned # cleaned /\ dict_has(index, translated_cleaned)
    THEN Decided(stage_hit(index, products, translated_cleaned, TranslationConfidence,
                           "translation", <<"normalize_to_pivot">>))
    ELSE translation_variants(index, products, get_all_variants(tr, raw_name),
                              first_variant_hit(get_all_variants(tr, raw_name).value, index))

\* Priority 2 (lines 556-588)
normalize_translation(raw_name, cleaned, index, products, tr) ==
    IF tr = "unavailable" THEN Missed(<<>>)
    ELSE IF normalize_to_pivot(tr, raw_name).raised
    THEN Decided(Propagated(<<"normalize_to_pivot">>))
    ELSE translation_pivot(raw_name, cleaned, clean_text(normalize_to_pivot(tr, raw_name).value),
                           index, products, tr)

\* a cascade that goes on to the abbreviation stage whatever the translation found
normalize_past_translation(raw_name, cleaned, expanded, index, products, tr, sem, translation) ==
    normalize_abbreviation(raw_name, cleaned, expanded, index, products, tr, sem,
                           translation.calls)

\* lines 590-701, after the translation stage
normalize_after_translation(raw_name, cleaned, expanded, index, products, tr, sem, translation) ==
    IF translation.decided THEN translation.out
    ELSE normalize_abbreviation(raw_name, cleaned, expanded, index, products, tr, sem,
                                translation.calls)

\* Priority 1 (lines 543-554) and what follows it
normalize_exact(raw_name, cleaned, expanded, index, products, tr, sem) ==
    IF dict_has(index, cleaned)
    THEN stage_hit(index, products, cleaned, ExactConfidence, "exact", <<>>)
    ELSE normalize_after_translation(raw_name, cleaned, expanded, index, products, tr, sem,
                                     normalize_translation(raw_name, cleaned, index, products, tr))

\* a normalize without the check of line 530
normalize_unchecked(raw_name, index, products, tr, sem) ==
    normalize_exact(raw_name, clean_text(raw_name), expand_abbreviations(raw_name),
                    index, products, tr, sem)

normalize(raw_name, index, products, tr, sem) ==
    IF raw_name = None \/ raw_name = <<>>
    THEN Returned(MatchResult(None, None, 0, "none", TRUE, <<>>), <<>>, FALSE, Rat(0, 1), None)
    ELSE normalize_exact(raw_name, clean_text(raw_name), expand_abbreviations(raw_name),
                         index, products, tr, sem)

(***************************************************************************)
(* learn_mapping and add_product.                                          *)
(***************************************************************************)
\* the key of product_mappings: f"{cleaned}|{shop_id}" if shop_id else cleaned
mapping_key(cleaned, shop_id) ==
    IF shop_id = None \/ shop_id = <<>> THEN cleaned ELSE cleaned \o <<"|">> \o shop_id

\* a check that looks at the cleaned text alone
learn_accepts_any_id(cleaned, product_id) == cleaned # <<>>

\* whether learn_mapping passes the check of line 729 (and so returns True)
learn_accepts(cleaned, product_id) ==
    ~(cleaned = <<>> \/ product_id = None \/ product_id = <<>>)

\* product_mappings after learn_mapping (lines 729-734)
learn_mappings(mappings, cleaned, product_id, shop_id) ==
    IF learn_accepts(cleaned, product_id)
    THEN dict_set(mappings, mapping_key(cleaned, shop_id), product_id)
    ELSE mappings

\* a learn_mapping that stores the mapping and leaves the index as it is
learn_index_unpatched(index, cleaned, product_id) == index

\* the dict self.product_index after learn_mapping (lines 729-737)
learn_index(index, cleaned, product_id) ==
    IF learn_accepts(cleaned, product_id)
    THEN dict_set(index, cleaned, product_id)
    ELSE index

\* text.split(sep): the fields between the separators
RECURSIVE str_split_on(_, _, _)
str_split_on(text, sep, field) ==
    IF text = <<>> THEN <<field>>
    ELSE IF Head(text) = sep
         THEN <<field>> \o str_split_on(Tail(text), sep, <<>>)
         ELSE str_split_on(Tail(text), sep, Append(field, Head(text)))

DigitString == <<"0", "1", "2", "3", "4", "5", "6", "7", "8", "9">>

DigitValue(c) == (CHOOSE i \in DOMAIN DigitString : DigitString[i] = c) - 1

RECURSIVE int_of(_)
int_of(digits) ==
    IF digits = <<>> THEN 0
    ELSE 10 * int_of(SubSeq(digits, 1, Len(digits) - 1)) + DigitValue(digits[Len(digits)])

RECURSIVE str_of(_)
str_of(n) == IF n < 10 THEN <<DigitString[n + 1]>>
             ELSE Append(str_of(n \div 10), DigitString[(n % 10) + 1])

\* f"{n:03d}"
IdWidth == 3

RECURSIVE zero_padded(_)
zero_padded(digits) == IF Len(digits) >= IdWidth THEN digits ELSE zero_padded(<<"0">> \o digits)

\* int(fields[1]) where it succeeds, and 0 (which leaves max_num as it is) where
\* the bare except swallows the IndexError or ValueError
field_number(fields) ==
    IF Len(fields) >= 2 /\ fields[2] # <<>> /\ \A i \in DOMAIN fields[2] : fields[2][i] \in Digits
    THEN int_of(fields[2])
    ELSE 0

id_number(pid) == field_number(str_split_on(pid, "_", <<>>))

\* an identifier numbered by the size of the catalog instead of by its identifiers
new_product_id_by_count(products) ==
    <<"P", "R", "O", "D", "_">> \o zero_padded(str_of(Len(products) + 1))

\* lines 763-772
new_product_id(products) ==
    <<"P", "R", "O", "D", "_">>
        \o zero_padded(str_of(SetMax({0} \cup {id_number(products[i].product_id) :
                                                 i \in DOMAIN products}) + 1))

\* lines 775-782
new_product(new_id, normalized_name, category, unit_of_measure, aliases_fr, aliases_en) ==
    [product_id |-> new_id,
     normalized_name |-> str_lower(normalized_name),
     category |-> category,
     unit_of_measure |-> unit_of_measure,
     aliases_fr |-> IF aliases_fr = None THEN <<>> ELSE aliases_fr,
     aliases_en |-> IF aliases_en = None THEN <<>> ELSE aliases_en]


(***************************************************************************)
(* search_products and normalize_batch, which read the catalog and the     *)
(* index.                                                                  *)
(***************************************************************************)
\* best_score > 0.3, in hundredths
SearchThreshold == 30

\* lines 853-861: best_score after the name and the aliases in `texts`, each
\* pass leaving max(best_score, score)
RECURSIVE best_score_of(_, _, _)
best_score_of(cleaned_query, texts, best_score) ==
    IF texts = <<>> THEN best_score
    ELSE LET score == combined_similarity(cleaned_query, clean_text(Head(texts)))
         IN  best_score_of(cleaned_query, Tail(texts),
                           IF RatLess(best_score, score) THEN score ELSE best_score)

\* lines 850-867: the loop over the products; a product is kept when its
\* best_score, as computed, exceeds the threshold, and the result appended is
\* {**product, "match_score": round(best_score, 3)}
search_results(cleaned_query, products) ==
    LET scored == [i \in DOMAIN products |->
                      [product |-> products[i],
                       best_score |-> best_score_of(cleaned_query,
                                                    <<products[i].normalized_name>>
                                                        \o products[i].aliases_fr
                                                        \o products[i].aliases_en,
                                                    Rat(0, 1))]]
        kept == SelectSeq(scored, LAMBDA s : RatLess(Rat(SearchThreshold, 100), s.best_score))
    IN  [i \in DOMAIN kept |->
            [match_score |-> round3(kept[i].best_score)] @@ kept[i].product]

\* results left in the order of the catalog
sort_results_unsorted(results) == results

\* results.sort(key=match_score, reverse=True): stable, so equal scores keep their order
RECURSIVE sort_results(_)
sort_results(results) ==
    IF results = <<>> THEN <<>>
    ELSE LET rest == sort_results(SubSeq(results, 1, Len(results) - 1))
             last_one == results[Len(results)]
             before == SelectSeq(rest, LAMBDA r : r.match_score >= last_one.match_score)
             after == SelectSeq(rest, LAMBDA r : r.match_score < last_one.match_score)
         IN  before \o <<last_one>> \o after

\* lines 847-871; results[:limit] drops from the end for a negative limit
search_products(query, limit, products) ==
    LET results == sort_results(search_results(clean_text(query), products))
    IN  IF limit < 0
        THEN SubSeq(results, 1, Len(results) + limit)
        ELSE SubSeq(results, 1, IF limit < Len(results) THEN limit ELSE Len(results))

\* item.get("name", "")
item_name(item) == IF dict_has(item, "name") THEN dict_get(item, "name") ELSE <<>>

\* a batch that normalizes the name of its first item for every item
normalize_batch_of_first(items, index, products, tr, sem) ==
    LET outs == [i \in DOMAIN items |-> normalize(item_name(items[1]), index, products, tr, sem)]
    IN  IF \E i \in DOMAIN outs : outs[i].raised
        THEN [raised |-> TRUE, results |-> <<>>]
        ELSE [raised |-> FALSE,
              results |-> [i \in DOMAIN items |->
                              dict_set(items[i], "normalization", outs[i].result)]]

\* lines 811-823: normalize for each item in order, {**item, "normalization": ...}
\* appended; an exception that leaves one normalize leaves the batch
normalize_batch(items, index, products, tr, sem) ==
    LET outs == [i \in DOMAIN items |-> normalize(item_name(items[i]), index, products, tr, sem)]
    IN  IF \E i \in DOMAIN outs : outs[i].raised
        THEN [raised |-> TRUE, results |-> <<>>]
        ELSE [raised |-> FALSE,
              results |-> [i \in DOMAIN items |->
                              dict_set(items[i], "normalization", outs[i].result)]]
(***************************************************************************)
(* The state of a ProductNormalizer and of the threads that call it.       *)
(***************************************************************************)
VARIABLES
    master_products,   \* self.master_products["products"]
    product_mappings,  \* self.product_mappings
    product_index,     \* the dict self.product_index is bound to
    translator,        \* the module translator (TRANSLATION_AVAILABLE if not "unavailable")
    semantic_matcher,  \* self.semantic_matcher
    threads,           \* where each thread stands in a call of learn_mapping or add_product
    last               \* the last call that completed, with what it returned

vars == <<master_products, product_mappings, product_index, translator, semantic_matcher,
          threads, last>>

\* bounds of the model
MaxProducts == 5

MaxMappings == 1

MaxThreads == 2

Threads == 1..MaxThreads

\* the collaborators present at import and construction
Collaborators ==
    {<<"unavailable", "none">>, <<"pivot", "none">>,
     <<"pivot_raises", "none">>, <<"variants_raises", "none">>,
     <<"unavailable", "tea">>, <<"unavailable", "raises">>, <<"variants", "flaky">>}

NoOutcome == Returned(MatchResult(None, None, 0, "<no call>", FALSE, <<>>), <<>>, FALSE, Rat(0, 1), None)

\* a completed call: ok is what learn_mapping returned, and FALSE for a call of
\* add_product that an exception left; new_id is what add_product returned
Call(op, raw_name, product_id, shop_id, ok, new_id, out) ==
    [op |-> op, raw_name |-> raw_name, product_id |-> product_id, shop_id |-> shop_id,
     ok |-> ok, new_id |-> new_id, out |-> out]

\* a thread: the statement it is at, the arguments of its call, and its locals
\* cleaned, new_id, the position i and the size of the loop it is in; before is
\* the dict self.product_index was bound to when its _build_product_index began
Thread(pc, arg, cleaned, new_id, i, size, before) ==
    [pc |-> pc, arg |-> arg, cleaned |-> cleaned, new_id |-> new_id, i |-> i, size |-> size,
     before |-> before]

Idle == Thread("idle", <<>>, <<>>, None, 0, 0, <<>>)

Constructed(products, collaborators) ==
    /\ master_products = products
    /\ product_mappings = <<>>
    /\ product_index = _build_product_index(products, <<>>)
    /\ translator = collaborators[1]
    /\ semantic_matcher = collaborators[2]
    /\ threads = [t \in Threads |-> Idle]
    /\ last = Call("__init__", None, None, None, TRUE, None, NoOutcome)

Init == \E c \in Collaborators : Constructed(CatalogFile, c)

(***************************************************************************)
(* The calls, one at a time.                                               *)
(***************************************************************************)
\* normalize(raw_name, shop_id); the source never reads shop_id
Normalize(raw_name) ==
    /\ last' = Call("normalize", raw_name, None, None, TRUE, None,
                    normalize(raw_name, product_index, master_products, translator,
                              semantic_matcher))
    /\ UNCHANGED <<master_products, product_mappings, product_index, translator,
                   semantic_matcher, threads>>

Learned(raw_name, cleaned, product_id, shop_id) ==
    /\ Len(learn_mappings(product_mappings, cleaned, product_id, shop_id)) <= MaxMappings
    /\ product_mappings' = learn_mappings(product_mappings, cleaned, product_id, shop_id)
    /\ product_index' = learn_index(product_index, cleaned, product_id)
    /\ last' = Call("learn_mapping", raw_name, product_id, shop_id,
                    learn_accepts(cleaned, product_id), None, NoOutcome)
    /\ UNCHANGED <<master_products, translator, semantic_matcher, threads>>

LearnMapping(raw_name, product_id, shop_id) ==
    Learned(raw_name, clean_text(raw_name), product_id, shop_id)

Added(normalized_name, new_id, products) ==
    /\ master_products' = products
    /\ product_index' = _build_product_index(products, product_mappings)
    /\ last' = Call("add_product", normalized_name, None, None, TRUE, new_id, NoOutcome)
    /\ UNCHANGED <<product_mappings, translator, semantic_matcher, threads>>

\* add_product, whose last statement is self._build_product_index()
AddProduct(normalized_name, aliases_fr, aliases_en) ==
    /\ Len(master_products) < MaxProducts
    /\ Added(normalized_name, new_product_id(master_products),
             Append(master_products,
                    new_product(new_product_id(master_products), normalized_name, "Fruits",
                                "piece", aliases_fr, aliases_en)))

Next ==
    \/ \E raw_name \in RawNames : Normalize(raw_name)
    \/ \E raw_name \in LearnNames, product_id \in LearnIds, shop_id \in ShopIds :
          LearnMapping(raw_name, product_id, shop_id)
    \/ \E p \in NewProducts : AddProduct(p[1], p[2], p[3])

Spec == Init /\ [][Next]_vars

\* the requests callers make of learn_mapping between the reads, and the
\* threads below: raw_name, product_id, shop_id
Requests ==
    {<<Xyz, <<"P", "R", "O", "D", "_", "9", "9", "9">>, None>>, <<Xyz, None, None>>}

(***************************************************************************)
(* The calls that read: normalize, search_products and normalize_batch,    *)
(* between calls of learn_mapping and add_product.                         *)
(***************************************************************************)
\* search_products(query, limit)
Search(query, limit) ==
    /\ last' = Call("search_products", query, None, None, TRUE, None,
                    [results |-> search_products(query, limit, master_products),
                     limit |-> limit])
    /\ UNCHANGED <<master_products, product_mappings, product_index, translator,
                   semantic_matcher, threads>>

MaxBatch == 2

\* normalize_batch(items)
NormalizeBatch(items) ==
    /\ last' = Call("normalize_batch", items, None, None, TRUE, None,
                    normalize_batch(items, product_index, master_products, translator,
                                    semantic_matcher))
    /\ UNCHANGED <<master_products, product_mappings, product_index, translator,
                   semantic_matcher, threads>>

InitReads ==
    \E c \in {<<"unavailable", "none">>, <<"pivot", "none">>, <<"unavailable", "tea">>,
              <<"pivot_raises", "none">>} :
        Constructed(CatalogFile, c)

NextReads ==
    \/ \E raw_name \in RawNames : Normalize(raw_name)
    \/ \E query \in SearchQueries, limit \in {-1, 0, 1, 10} : Search(query, limit)
    \/ \E items \in UNION {[1..n -> BatchItems] : n \in 0..MaxBatch} : NormalizeBatch(items)
    \/ \E r \in Requests : LearnMapping(r[1], r[2], r[3])
    \/ \E p \in NewProducts : AddProduct(p[1], p[2], p[3])

SpecReads == InitReads /\ [][NextReads]_vars

(***************************************************************************)
(* clean_text on its own, for every text of a bounded length over a few    *)
(* characters: letters that spell noise words, a capital, an accented      *)
(* letter, a combining mark, punctuation and the space.                    *)
(***************************************************************************)
MaxTextLen == 3

Texts ==
    {None} \cup UNION {[1..n -> {"l", "e", "t", "h", "E", "U+00E9", "U+0301", "'", " "}] :
                          n \in 0..MaxTextLen}

\* clean_text(text) for the text the caller holds
CleanText ==
    /\ last.op = "text"
    /\ last' = Call("clean_text", last.raw_name, None, None, TRUE, None,
                    [value |-> clean_text(last.raw_name)])
    /\ UNCHANGED <<master_products, product_mappings, product_index, translator,
                   semantic_matcher, threads>>

\* clean_text of what clean_text returned
CleanTextAgain ==
    /\ last.op = "clean_text"
    /\ last' = Call("clean_text of clean_text", last.raw_name, None, None, TRUE, None,
                    [value |-> clean_text(last.out.value), once |-> last.out.value])
    /\ UNCHANGED <<master_products, product_mappings, product_index, translator,
                   semantic_matcher, threads>>

\* a caller holding a text, with an empty catalog
InitText ==
    \E text \in Texts :
        /\ master_products = <<>>
        /\ product_mappings = <<>>
        /\ product_index = _build_product_index(<<>>, <<>>)
        /\ translator = "unavailable"
        /\ semantic_matcher = "none"
        /\ threads = [t \in Threads |-> Idle]
        /\ last = Call("text", text, None, None, TRUE, None, NoOutcome)

NextText == CleanText \/ CleanTextAgain

SpecText == InitText /\ [][NextText]_vars

(***************************************************************************)
(* combined_similarity on its own, for every pair of texts of a bounded    *)
(* length over two letters and the space.                                  *)
(***************************************************************************)
MaxSimilarityLen == 3

SimilarityTexts == UNION {[1..n -> {"a", "b", " "}] : n \in 0..MaxSimilarityLen}

\* combined_similarity(s1, s2) for the texts the caller holds
CombinedSimilarity ==
    /\ last.op = "texts"
    /\ last' = Call("combined_similarity", last.raw_name, None, None, TRUE, None,
                    [value |-> combined_similarity(last.raw_name[1], last.raw_name[2])])
    /\ UNCHANGED <<master_products, product_mappings, product_index, translator,
                   semantic_matcher, threads>>

\* combined_similarity(s2, s1) after it
CombinedSimilaritySwapped ==
    /\ last.op = "combined_similarity"
    /\ last' = Call("combined_similarity swapped", last.raw_name, None, None, TRUE, None,
                    [value |-> combined_similarity(last.raw_name[2], last.raw_name[1]),
                     first |-> last.out.value])
    /\ UNCHANGED <<master_products, product_mappings, product_index, translator,
                   semantic_matcher, threads>>

\* a caller holding two texts, with an empty catalog
InitSimilarity ==
    \E s1 \in SimilarityTexts, s2 \in SimilarityTexts :
        /\ master_products = <<>>
        /\ product_mappings = <<>>
        /\ product_index = _build_product_index(<<>>, <<>>)
        /\ translator = "unavailable"
        /\ semantic_matcher = "none"
        /\ threads = [t \in Threads |-> Idle]
        /\ last = Call("texts", <<s1, s2>>, None, None, TRUE, None, NoOutcome)

NextSimilarity == CombinedSimilarity \/ CombinedSimilaritySwapped

SpecSimilarity == InitSimilarity /\ [][NextSimilarity]_vars

(***************************************************************************)
(* The default catalog of a first start, with no collaborator.             *)
(***************************************************************************)
InitDefault == Constructed(DEFAULT_MASTER_PRODUCTS, <<"unavailable", "none">>)

NextDefault ==
    \/ \E raw_name \in RawNames : Normalize(raw_name)
    \/ \E raw_name \in LearnNames, product_id \in LearnIds, shop_id \in ShopIds :
          LearnMapping(raw_name, product_id, shop_id)

SpecDefault == InitDefault /\ [][NextDefault]_vars

(***************************************************************************)
(* The default catalog with a semantic matcher: one that scores "tea" and  *)
(* "tomate" high, and one whose score grows with the length of the         *)
(* indexed text, so that more than five products are suggested.            *)
(***************************************************************************)
InitSuggestions ==
    \E sem \in {"tea", "graded"} :
        Constructed(DEFAULT_MASTER_PRODUCTS, <<"unavailable", sem>>)

SpecSuggestions == InitSuggestions /\ [][NextDefault]_vars

(***************************************************************************)
(* Scores next to the thresholds: two receipt lines an operator mapped,    *)
(* and two later lines that score 0.8495 and 0.5995 against them.          *)
(***************************************************************************)
RoundingRequests ==
    Requests \cup {<<TomateBioTomates, <<"P", "R", "O", "D", "_", "0", "2", "0">>, None>>,
                   <<BioLaiJussThonRizSels, <<"P", "R", "O", "D", "_", "0", "2", "0">>, None>>}

InitRounding == Constructed(CatalogFile, <<"unavailable", "none">>)

NextRounding ==
    \/ \E raw_name \in RawNames \cup {TomateBioTomate, LaitJusThonRizSel} :
          Normalize(raw_name)
    \/ \E r \in RoundingRequests : LearnMapping(r[1], r[2], r[3])
    \/ \E p \in NewProducts : AddProduct(p[1], p[2], p[3])

SpecRounding == InitRounding /\ [][NextRounding]_vars

(***************************************************************************)
(* Threads calling one ProductNormalizer: learn_mapping and add_product    *)
(* statement by statement, normalize as one step between them.             *)
(***************************************************************************)
\* names the readers pass: an alias of the first record, and an unknown text
ReaderNames == {BananePlantain, Xyz}

At(t, pc) == threads[t].pc = pc

\* lines 763-772: new_id from the identifiers of the catalog as it is now
AddProductBegin(t, p) ==
    /\ At(t, "idle")
    /\ Len(master_products) + Cardinality({u \in Threads : At(u, "add_append")}) < MaxProducts
    /\ threads' = [threads EXCEPT ![t] =
                      Thread("add_append", p, <<>>, new_product_id(master_products), 0, 0, <<>>)]
    /\ UNCHANGED <<master_products, product_mappings, product_index, translator,
                   semantic_matcher, last>>

\* lines 775-790: the new record is appended (and the file saved)
AddProductAppend(t) ==
    /\ At(t, "add_append")
    /\ master_products' =
          Append(master_products,
                 new_product(threads[t].new_id, threads[t].arg[1], "Fruits", "piece",
                             threads[t].arg[2], threads[t].arg[3]))
    /\ threads' = [threads EXCEPT ![t].pc = "build_reset"]
    /\ UNCHANGED <<product_mappings, product_index, translator, semantic_matcher, last>>

\* line 296: self.product_index = {}
BuildReset(t) ==
    /\ At(t, "build_reset")
    /\ product_index' = <<>>
    /\ threads' = [threads EXCEPT ![t].pc = "build_products", ![t].before = product_index]
    /\ UNCHANGED <<master_products, product_mappings, translator, semantic_matcher, last>>

\* lines 298-317: the loop over the list of products, its passes taken together;
\* then the iterator of product_mappings.items() is made, which remembers the
\* size of the dict
BuildProducts(t) ==
    /\ At(t, "build_products")
    /\ product_index' = dict_update(product_index,
                                    catalog_writes(master_products, 1, Len(master_products)))
    /\ threads' = [threads EXCEPT ![t].pc = "build_mappings", ![t].i = 1,
                                  ![t].size = Len(product_mappings)]
    /\ UNCHANGED <<master_products, product_mappings, translator, semantic_matcher, last>>

\* lines 317-319: one pass of the loop over product_mappings.items()
BuildMapping(t) ==
    /\ At(t, "build_mappings")
    /\ Len(product_mappings) = threads[t].size
    /\ threads[t].i <= threads[t].size
    /\ product_index' = dict_update(product_index, <<mapping_write(product_mappings[threads[t].i])>>)
    /\ threads' = [threads EXCEPT ![t].i = @ + 1]
    /\ UNCHANGED <<master_products, product_mappings, translator, semantic_matcher, last>>

\* line 317: the iterator finds the size of the dict changed and raises
\* RuntimeError, which leaves _build_product_index and add_product
BuildRaises(t) ==
    /\ At(t, "build_mappings")
    /\ Len(product_mappings) # threads[t].size
    /\ threads' = [threads EXCEPT ![t] = Idle]
    /\ last' = Call("add_product", threads[t].arg[1], None, None, FALSE, threads[t].new_id,
                    NoOutcome)
    /\ UNCHANGED <<master_products, product_mappings, product_index, translator,
                   semantic_matcher>>

\* lines 321, 793-794: the loop is exhausted, add_product returns new_id
AddProductReturn(t) ==
    /\ At(t, "build_mappings")
    /\ Len(product_mappings) = threads[t].size
    /\ threads[t].i > threads[t].size
    /\ threads' = [threads EXCEPT ![t] = Idle]
    /\ last' = Call("add_product", threads[t].arg[1], None, None, TRUE, threads[t].new_id,
                    NoOutcome)
    /\ UNCHANGED <<master_products, product_mappings, product_index, translator,
                   semantic_matcher>>

\* lines 727-730, for a request that is refused
Refused(t, raw_name, cleaned, product_id, shop_id) ==
    /\ At(t, "idle")
    /\ ~learn_accepts(cleaned, product_id)
    /\ last' = Call("learn_mapping", raw_name, product_id, shop_id, FALSE, None, NoOutcome)
    /\ UNCHANGED <<master_products, product_mappings, product_index, translator,
                   semantic_matcher, threads>>

LearnMappingRefuse(t, raw_name, product_id, shop_id) ==
    Refused(t, raw_name, clean_text(raw_name), product_id, shop_id)

\* lines 727-733, for a request that is accepted, one learn_mapping at a time
Accepted(t, raw_name, cleaned, product_id, shop_id) ==
    /\ At(t, "idle")
    /\ \A u \in Threads : threads[u].pc \notin {"learn_mappings", "learn_index"}
    /\ learn_accepts(cleaned, product_id)
    /\ Len(learn_mappings(product_mappings, cleaned, product_id, shop_id)) <= MaxMappings
    /\ threads' = [threads EXCEPT ![t] =
                      Thread("learn_mappings", <<raw_name, product_id, shop_id>>, cleaned,
                             None, 0, 0, <<>>)]
    /\ UNCHANGED <<master_products, product_mappings, product_index, translator,
                   semantic_matcher, last>>

LearnMappingBegin(t, raw_name, product_id, shop_id) ==
    Accepted(t, raw_name, clean_text(raw_name), product_id, shop_id)

\* line 734: self.product_mappings[key] = product_id
LearnMappingStore(t) ==
    /\ At(t, "learn_mappings")
    /\ product_mappings' = dict_set(product_mappings,
                                    mapping_key(threads[t].cleaned, threads[t].arg[3]),
                                    threads[t].arg[2])
    /\ threads' = [threads EXCEPT ![t].pc = "learn_index"]
    /\ UNCHANGED <<master_products, product_index, translator, semantic_matcher, last>>

\* lines 737-743: self.product_index[cleaned] = product_id, on the dict
\* self.product_index is bound to now; the file is saved; return True
LearnMappingReturn(t) ==
    /\ At(t, "learn_index")
    /\ product_index' = dict_set(product_index, threads[t].cleaned, threads[t].arg[2])
    /\ threads' = [threads EXCEPT ![t] = Idle]
    /\ last' = Call("learn_mapping", threads[t].arg[1], threads[t].arg[2], threads[t].arg[3],
                    TRUE, None, NoOutcome)
    /\ UNCHANGED <<master_products, product_mappings, translator, semantic_matcher>>

InitThreads == Constructed(CatalogFile, <<"unavailable", "none">>)

NextThreads ==
    \/ \E raw_name \in ReaderNames : Normalize(raw_name)
    \/ \E t \in Threads, p \in NewProducts : AddProductBegin(t, p)
    \/ \E t \in Threads : AddProductAppend(t)
    \/ \E t \in Threads : BuildReset(t)
    \/ \E t \in Threads : BuildProducts(t)
    \/ \E t \in Threads : BuildMapping(t)
    \/ \E t \in Threads : BuildRaises(t)
    \/ \E t \in Threads : AddProductReturn(t)
    \/ \E t \in Threads, r \in Requests : LearnMappingRefuse(t, r[1], r[2], r[3])
    \/ \E t \in Threads, r \in Requests : LearnMappingBegin(t, r[1], r[2], r[3])
    \/ \E t \in Threads : LearnMappingStore(t)
    \/ \E t \in Threads : LearnMappingReturn(t)

SpecThreads == InitThreads /\ [][NextThreads]_vars

(***************************************************************************)
(* The properties claimed of the normalizer.  In a state whose last call   *)
(* is a normalize, the catalog, the mappings and the index are those the   *)
(* call ran on: only learn_mapping and add_product change them, and each   *)
(* leaves itself as the last call.                                         *)
(***************************************************************************)
Resolved == last.op = "normalize"

Key == clean_text(last.raw_name)

Stage(out, match_method, confidence, product_id) ==
    /\ ~out.raised
    /\ out.result.match_method = match_method
    /\ out.result.confidence = confidence
    /\ out.result.product_id = product_id

RecordAliases(product) == Range(product.aliases_fr) \cup Range(product.aliases_en)

RecordKeys(product) ==
    {clean_text(text) : text \in {product.normalized_name} \cup RecordAliases(product)}

\* the text a key of product_mappings was learned for: what precedes "|shop_id"
LearnedText(key) == Head(str_split_on(key, "|", <<>>))

\* No later record of the catalog writes the key of alias a of record i, and no
\* learned mapping was stored for it or is written over it by a rebuild.
Unshadowed(i, a) ==
    /\ \A j \in (i + 1)..Len(master_products) :
          clean_text(a) \notin RecordKeys(master_products[j])
    /\ \A m \in DOMAIN product_mappings :
          /\ LearnedText(product_mappings[m].k) # clean_text(a)
          /\ clean_text(product_mappings[m].k) # clean_text(a)

\* C1 as claimed: in every reachable state, for every record P of the catalog and
\* every non-empty alias a of P, normalize(a) returns P's product_id with
\* confidence 1.0 and match_method exact.
C1_AliasResolvesToItsRecord ==
    \A i \in DOMAIN master_products : \A a \in RecordAliases(master_products[i]) :
        a # <<>> =>
            Stage(normalize(a, product_index, master_products, translator, semantic_matcher),
                  "exact", 1000, master_products[i].product_id)

\* C1 as amended: for every record P and every non-empty alias a of P, normalize(a)
\* returns confidence 1.0 and match_method exact, with the product_id that was
\* written last under the key of a: P's, unless a later record has a name or alias
\* with the same key or a mapping was learned for it.
C1_AliasResolvesToLastWriter ==
    \A i \in DOMAIN master_products : \A a \in RecordAliases(master_products[i]) :
        a # <<>> =>
            /\ Stage(normalize(a, product_index, master_products, translator,
                               semantic_matcher),
                     "exact", 1000, dict_get(product_index, clean_text(a)))
            /\ Unshadowed(i, a) =>
                  dict_get(product_index, clean_text(a)) = master_products[i].product_id

\* C1 witness: after a mapping was learned, normalize of the first record's alias
\* "Banane plantain", which nothing shadows, returned that record by the exact stage.
C1_Witness ==
    /\ Resolved /\ last.raw_name = BananePlantain
    /\ product_mappings # <<>>
    /\ master_products[1].product_id = <<"P", "R", "O", "D", "_", "0", "0", "1">>
    /\ <<"b", "a", "n", "a", "n", "e", " ", "p", "l", "a", "n", "t", "a", "i", "n">>
          \in RecordAliases(master_products[1])
    /\ Unshadowed(1, <<"b", "a", "n", "a", "n", "e", " ", "p", "l", "a", "n", "t", "a", "i", "n">>)
    /\ Stage(last.out, "exact", 1000, <<"P", "R", "O", "D", "_", "0", "0", "1">>)

\* C2: when learn_mapping(t, p[, shop]) has returned True and the next call is
\* normalize(t), that call returns p with confidence 1.0 and match_method exact;
\* and learn_mapping changes the index by the one assignment index[clean_text(t)] = p.
C2_LearnedMappingResolves ==
    [][/\ (last.op = "learn_mapping" /\ last.ok /\ last'.op = "normalize"
             /\ last'.raw_name = last.raw_name)
          => Stage(last'.out, "exact", 1000, last.product_id)
       /\ (last'.op = "learn_mapping" /\ last'.ok)
          => product_index' = dict_set(product_index, clean_text(last'.raw_name),
                                       last'.product_id)]_vars

\* C2 witness: "XYZ", an alias of an added record, was learned for PROD_999, which
\* no record has, and normalize("XYZ") returned PROD_999 by the exact stage.
C2_Witness ==
    /\ Resolved /\ last.raw_name = Xyz
    /\ \E i \in DOMAIN master_products : Xyz \in RecordAliases(master_products[i])
    /\ _get_product_by_id(master_products, <<"P", "R", "O", "D", "_", "9", "9", "9">>) = <<>>
    /\ Stage(last.out, "exact", 1000, <<"P", "R", "O", "D", "_", "9", "9", "9">>)

\* what each stage finds for the last call's raw_name in the index as it is
ExactHit == dict_has(product_index, Key)

PivotHit ==
    /\ translator # "unavailable"
    /\ ~normalize_to_pivot(translator, last.raw_name).raised
    /\ clean_text(normalize_to_pivot(translator, last.raw_name).value) # Key
    /\ dict_has(product_index, clean_text(normalize_to_pivot(translator, last.raw_name).value))

VariantHits ==
    IF translator = "unavailable" \/ get_all_variants(translator, last.raw_name).raised
    THEN <<>>
    ELSE SelectSeq(get_all_variants(translator, last.raw_name).value,
                   LAMBDA v : dict_has(product_index, clean_text(v)))

Expansion == clean_text(expand_abbreviations(last.raw_name))

AbbreviationHit ==
    expand_abbreviations(last.raw_name) # Key /\ dict_has(product_index, Expansion)

\* C3: a normalize of a non-empty raw_name that returns, returns what the first
\* stage that hits gives, in the order exact (1.0), translation (0.98),
\* translation_variant (0.96), abbreviation (0.95), similarity; it has called the
\* translator only as far as the stages before the hit did, and has scanned the
\* index only when no stage hit.  An abbreviation hit has needs_review false and
\* no suggestions.
C3_FirstHitWins ==
    (Resolved /\ last.raw_name \notin {None, <<>>} /\ ~last.out.raised) =>
        CASE ExactHit ->
               /\ Stage(last.out, "exact", 1000, dict_get(product_index, Key))
               /\ last.out.calls = <<>> /\ ~last.out.scanned
          [] ~ExactHit /\ PivotHit ->
               /\ Stage(last.out, "translation", 980,
                        dict_get(product_index,
                                 clean_text(normalize_to_pivot(translator, last.raw_name).value)))
               /\ last.out.calls = <<"normalize_to_pivot">> /\ ~last.out.scanned
          [] ~ExactHit /\ ~PivotHit /\ VariantHits # <<>> ->
               /\ Stage(last.out, "translation_variant", 960,
                        dict_get(product_index, clean_text(Head(VariantHits))))
               /\ last.out.calls = <<"normalize_to_pivot", "get_all_variants">>
               /\ ~last.out.scanned
          [] ~ExactHit /\ ~PivotHit /\ VariantHits = <<>> /\ AbbreviationHit ->
               /\ Stage(last.out, "abbreviation", 950, dict_get(product_index, Expansion))
               /\ ~last.out.result.needs_review /\ last.out.result.suggestions = <<>>
               /\ last.out.calls = IF translator = "unavailable" THEN <<>>
                                   ELSE <<"normalize_to_pivot", "get_all_variants">>
               /\ ~last.out.scanned
          [] OTHER ->
               /\ last.out.result.match_method \in {"similarity", "similarity_low", "none"}
               /\ last.out.scanned

\* C3 witness: with no translator, normalize("BNN PLTN"), whose key is not in the
\* index, returned the plantain record by the abbreviation stage.
C3_Witness ==
    /\ Resolved /\ last.raw_name = BnnPltn /\ translator = "unavailable"
    /\ ~ExactHit
    /\ Expansion = <<"b", "a", "n", "a", "n", "e", " ", "p", "l", "a", "n", "t", "a", "i", "n">>
    /\ Stage(last.out, "abbreviation", 950, <<"P", "R", "O", "D", "_", "0", "0", "1">>)
    /\ ~last.out.result.needs_review /\ last.out.result.suggestions = <<>>

\* the texts the similarity stage of the last call searched for
SearchVariants ==
    search_variants(<<Key>>, IF translator = "unavailable" THEN <<>>
                             ELSE get_all_variants(translator, last.raw_name).value)

\* the products with an index key that some searched text scores above 0.5
LexicalCandidates ==
    {product_index[i].v : i \in {j \in DOMAIN product_index :
        \E v \in Range(SearchVariants) :
            RatLess(Rat(1, 2), combined_similarity(v, product_index[j].k))}}

SuggestedProducts(suggestions) == {suggestions[n].product_id : n \in DOMAIN suggestions}

\* The suggestions the loops collected are attached: every lexical candidate is
\* suggested (they are at most 5), nothing else is unless a semantic matcher ran,
\* no product twice, in descending order of score.
SuggestionsAttached(suggestions) ==
    /\ Cardinality(LexicalCandidates) <= 5 => LexicalCandidates \subseteq SuggestedProducts(suggestions)
    /\ semantic_matcher = "none" => SuggestedProducts(suggestions) \subseteq LexicalCandidates
    /\ \A m, n \in DOMAIN suggestions :
          m < n => /\ suggestions[m].product_id # suggestions[n].product_id
                   /\ suggestions[m].score >= suggestions[n].score

\* C4: for a normalize that reached the similarity stage with best score s and best
\* pair (product, key): s >= 0.85 gives that product, match_method similarity,
\* needs_review false, no suggestions; 0.6 <= s < 0.85 gives that product,
\* similarity_low, needs_review true, the suggestions attached; s < 0.6 gives
\* product_id None, normalized_name the cleaned input, match_method none,
\* needs_review true, the suggestions attached.
C4_ThresholdBands ==
    (Resolved /\ last.out.scanned) =>
        CASE RatLeq(Rat(85, 100), last.out.best_score) ->
               /\ last.out.result.product_id = last.out.best_match[1]
               /\ last.out.result.match_method = "similarity"
               /\ ~last.out.result.needs_review
               /\ last.out.result.suggestions = <<>>
          [] RatLeq(Rat(6, 10), last.out.best_score)
               /\ RatLess(last.out.best_score, Rat(85, 100)) ->
               /\ last.out.result.product_id = last.out.best_match[1]
               /\ last.out.result.match_method = "similarity_low"
               /\ last.out.result.needs_review
               /\ SuggestionsAttached(last.out.result.suggestions)
          [] OTHER ->
               /\ last.out.result.product_id = None
               /\ last.out.result.normalized_name = Key
               /\ last.out.result.match_method = "none"
               /\ last.out.result.needs_review
               /\ SuggestionsAttached(last.out.result.suggestions)

\* C4 witness: normalize("Plantain banane") scanned the index, its best score lies
\* in [0.6, 0.85), and it returned similarity_low with suggestions.
C4_Witness ==
    /\ Resolved /\ last.raw_name = PlantainBanane /\ last.out.scanned
    /\ RatLeq(Rat(6, 10), last.out.best_score) /\ RatLess(last.out.best_score, Rat(85, 100))
    /\ last.out.result.match_method = "similarity_low"
    /\ last.out.result.suggestions # <<>>

\* C5 as claimed: on the default catalog with no collaborator, normalize("Tomates
\* fraiches") misses the exact and abbreviation stages, scores >= 0.85 against the
\* key "tomates", and returns match_method similarity with needs_review false.
C5_TomatesFraichesConfident ==
    (Resolved /\ last.raw_name = TomatesFraiches) =>
        /\ ~ExactHit /\ ~AbbreviationHit
        /\ RatLeq(Rat(85, 100), combined_similarity(Key, Tomates))
        /\ last.out.result.match_method = "similarity"
        /\ ~last.out.result.needs_review

\* C5 as amended: on the default catalog with no collaborator, normalize("Tomates
\* fraiches") misses the exact and abbreviation stages; its best score is the 0.565
\* it scores against the key "tomates" of PROD_020, below 0.6, and it returns
\* match_method none, product_id None, confidence 0.565, needs_review true, with
\* PROD_020 as its one suggestion.
C5_TomatesFraichesUnmatched ==
    (Resolved /\ last.raw_name = TomatesFraiches) =>
        /\ ~ExactHit /\ ~AbbreviationHit
        /\ last.out.scanned
        /\ last.out.best_score = combined_similarity(Key, Tomates)
        /\ last.out.best_match = <<<<"P", "R", "O", "D", "_", "0", "2", "0">>, Tomates>>
        /\ round3(last.out.best_score) = 565
        /\ RatLess(last.out.best_score, Rat(6, 10))
        /\ Stage(last.out, "none", 565, None)
        /\ last.out.result.needs_review
        /\ SuggestedProducts(last.out.result.suggestions)
              = {<<"P", "R", "O", "D", "_", "0", "2", "0">>}
        /\ Len(last.out.result.suggestions) = 1
        /\ last.out.result.suggestions[1].score = 565

\* C5 witness: normalize("Tomates fraiches") has run on the default catalog, whose
\* index has the key "tomates", and returned match_method none.
C5_Witness ==
    /\ Resolved /\ last.raw_name = TomatesFraiches
    /\ master_products = DEFAULT_MASTER_PRODUCTS
    /\ translator = "unavailable" /\ semantic_matcher = "none"
    /\ dict_has(product_index, Tomates)
    /\ last.out.result.match_method = "none"

\* C6: normalize("") and normalize(None) return product_id None, match_method none,
\* needs_review true and no suggestions, whatever the catalog and the index hold,
\* having called no collaborator and scanned nothing.
C6_EmptyInput ==
    (Resolved /\ last.raw_name \in {None, <<>>}) =>
        /\ ~last.out.raised
        /\ last.out.result.product_id = None
        /\ last.out.result.match_method = "none"
        /\ last.out.result.needs_review
        /\ last.out.result.suggestions = <<>>
        /\ last.out.calls = <<>>
        /\ ~last.out.scanned

\* C6 witness: normalize("") returned the empty result with a translator and a
\* semantic matcher present and an index that holds the key "".
C6_Witness ==
    /\ Resolved /\ last.raw_name = <<>>
    /\ translator # "unavailable" /\ semantic_matcher # "none"
    /\ dict_has(product_index, <<>>)
    /\ last.out.result.match_method = "none" /\ last.out.result.product_id = None

\* C7: a learn_mapping whose raw text cleans to "" or whose product_id is None or
\* "" returns False (it does not raise) and leaves product_mappings and the index
\* as they were.
C7_RefusedLearnChangesNothing ==
    [][(/\ last'.op = "learn_mapping"
        /\ \/ clean_text(last'.raw_name) = <<>>
           \/ last'.product_id \in {None, <<>>})
       => /\ last'.ok = FALSE
          /\ product_mappings' = product_mappings
          /\ product_index' = product_index]_vars

\* C7 witness: with a mapping learned already, learn_mapping("Thé", "PROD_999"),
\* whose text cleans to "", returned False.
C7_Witness ==
    /\ last.op = "learn_mapping" /\ last.raw_name = The
    /\ last.product_id = <<"P", "R", "O", "D", "_", "9", "9", "9">>
    /\ clean_text(last.raw_name) = <<>>
    /\ ~last.ok
    /\ product_mappings # <<>>

\* C8 as claimed: normalize returns a MatchResult and never raises, whatever
\* normalize_to_pivot, get_all_variants or similarity do; when the semantic matcher
\* raises on some pairs the others still count.
C8_CollaboratorFailuresTolerated ==
    Resolved => ~last.out.raised

\* C9 as claimed: a normalize that runs while the index is being rebuilt for an
\* add_product finds, by the exact stage, every key that the index had before the
\* rebuild and has after it.
C9_ReadersSeeCompleteIndex ==
    [][\A t \in Threads :
          (/\ threads[t].pc \in {"build_products", "build_mappings"}
           /\ last'.op = "normalize" /\ last' # last
           /\ dict_has(threads[t].before, clean_text(last'.raw_name))
           /\ dict_has(_build_product_index(master_products, product_mappings),
                       clean_text(last'.raw_name)))
          => last'.out.result.match_method = "exact"]_vars

\* C10 as claimed: concurrent learn_mapping and add_product calls have the effect
\* of some serial order: no two records of the catalog share a product_id, no
\* add_product is left by an exception, and once every call has returned the
\* index holds every name, alias and learned mapping.
C10_MutationsSerialize ==
    /\ \A i, j \in DOMAIN master_products :
          i # j => master_products[i].product_id # master_products[j].product_id
    /\ last.op = "add_product" => last.ok
    /\ (\A t \in Threads : threads[t].pc = "idle") =>
          dict_keys(_build_product_index(master_products, product_mappings))
              \subseteq dict_keys(product_index)

(***************************************************************************)
(* Identifiers of the catalog.                                             *)
(***************************************************************************)
\* the number an identifier ends in: the digits after "PROD_"
Suffix(pid) == int_of(SubSeq(pid, 6, Len(pid)))

IsProdId(pid) ==
    /\ Len(pid) > 5
    /\ SubSeq(pid, 1, 5) = <<"P", "R", "O", "D", "_">>
    /\ \A i \in 6..Len(pid) : pid[i] \in Digits

\* C11: add_product gives the new record the identifier whose number is one more
\* than the highest number among the identifiers of the catalog, appends it and
\* leaves every earlier record as it was, so the identifiers of the catalog stay
\* pairwise distinct.
C11_NewIdIsHighestSuffixPlusOne ==
    [][master_products' # master_products =>
          /\ last'.op = "add_product"
          /\ Len(master_products') = Len(master_products) + 1
          /\ SubSeq(master_products', 1, Len(master_products)) = master_products
          /\ master_products'[Len(master_products')].product_id = last'.new_id
          /\ IsProdId(last'.new_id)
          /\ \A i \in DOMAIN master_products : IsProdId(master_products[i].product_id)
          /\ Suffix(last'.new_id) =
                SetMax({Suffix(master_products[i].product_id) : i \in DOMAIN master_products}) + 1
          /\ \A i, j \in DOMAIN master_products' :
                i # j => master_products'[i].product_id # master_products'[j].product_id]_vars

\* C11 witness: two add_product calls after PROD_001, PROD_020 and PROD_085 gave
\* PROD_086 and then PROD_087.
C11_Witness ==
    /\ last.op = "add_product"
    /\ last.new_id = <<"P", "R", "O", "D", "_", "0", "8", "7">>
    /\ Len(master_products) = 5
    /\ master_products[3].product_id = <<"P", "R", "O", "D", "_", "0", "8", "5">>
    /\ master_products[4].product_id = <<"P", "R", "O", "D", "_", "0", "8", "6">>
    /\ master_products[5].product_id = <<"P", "R", "O", "D", "_", "0", "8", "7">>

(***************************************************************************)
(* search_products.                                                        *)
(***************************************************************************)
Searched == last.op = "search_products"

\* the scores of a record's name and aliases against the query of the last
\* search, as combined_similarity computes them
ScoresOf(product) ==
    {combined_similarity(clean_text(last.raw_name), clean_text(text)) :
        text \in {product.normalized_name} \cup RecordAliases(product)}

NonIncreasing(results) ==
    \A i, j \in DOMAIN results : i < j => results[i].match_score >= results[j].match_score

\* C12 as claimed: search_products returns no record whose reported score is
\* 0.3 or less, and the records it returns are in non-increasing order of score.
C12_ReportedScoresOverThreshold ==
    Searched =>
        /\ \A i \in DOMAIN last.out.results : last.out.results[i].match_score > 300
        /\ NonIncreasing(last.out.results)

\* C12 as amended: every record search_products returns is a record of the
\* catalog one of whose scores, before rounding, exceeds 0.3; the score reported
\* is the greatest of them rounded to three decimals, which is 0.3 or more, and
\* the records are in non-increasing order of the reported score.
C12_ScoresOverThresholdBeforeRounding ==
    Searched =>
        /\ \A i \in DOMAIN last.out.results :
              \E n \in DOMAIN master_products :
                  /\ master_products[n].product_id = last.out.results[i].product_id
                  /\ \E s \in ScoresOf(master_products[n]) : RatLess(Rat(3, 10), s)
                  /\ last.out.results[i].match_score =
                        SetMax({round3(s) : s \in ScoresOf(master_products[n])})
                  /\ last.out.results[i].match_score >= 300
        /\ NonIncreasing(last.out.results)

\* C12 witness: search_products("tomatoes banane kinshasa concentre", 10) returned
\* the tomato record with 0.329 before the plantain record, which comes first in
\* the catalog and whose score 0.3004 is reported as 0.3.
C12_Witness ==
    /\ Searched /\ last.raw_name = TomatoesBananeKinshasaConcentre /\ last.out.limit = 10
    /\ Len(last.out.results) = 2
    /\ last.out.results[1].product_id = <<"P", "R", "O", "D", "_", "0", "2", "0">>
    /\ last.out.results[1].match_score = 329
    /\ last.out.results[2].product_id = <<"P", "R", "O", "D", "_", "0", "0", "1">>
    /\ last.out.results[2].match_score = 300
    /\ master_products[1].product_id = <<"P", "R", "O", "D", "_", "0", "0", "1">>

(***************************************************************************)
(* clean_text and combined_similarity as functions.                        *)
(***************************************************************************)
\* C13: clean_text is idempotent: for every text, None and "" included,
\* clean_text(clean_text(text)) = clean_text(text).
C13_CleanTextIdempotent ==
    last.op = "clean_text of clean_text" => last.out.value = last.out.once

\* C13 witness: clean_text of "E", e-acute, "'" returned "ee": the capital was
\* lowered, the accent stripped and the apostrophe replaced and trimmed.
C13_Witness ==
    /\ last.op = "clean_text of clean_text"
    /\ last.raw_name = <<"E", "U+00E9", "'">>
    /\ last.out.once = <<"e", "e">>
    /\ last.out.value = <<"e", "e">>

\* C14 as claimed: combined_similarity is symmetric: for all strings a and b,
\* combined_similarity(a, b) = combined_similarity(b, a).
C14_CombinedSimilaritySymmetric ==
    last.op = "combined_similarity swapped" =>
        last.out.value.n * last.out.first.d = last.out.first.n * last.out.value.d

(***************************************************************************)
(* The calls that read.                                                    *)
(***************************************************************************)
\* C15: normalize, normalize_batch and search_products leave the catalog, the
\* learned mappings and the index as they were; a normalize_batch that returns
\* gives one entry per item, in the order of the items, each the item with the
\* normalization that normalize returns for the item's name on its own.
C15_ReadsChangeNothing ==
    [][/\ last'.op \in {"normalize", "normalize_batch", "search_products"} =>
             /\ master_products' = master_products
             /\ product_mappings' = product_mappings
             /\ product_index' = product_index
       /\ (last'.op = "normalize_batch" /\ ~last'.out.raised) =>
             /\ Len(last'.out.results) = Len(last'.raw_name)
             /\ \A i \in DOMAIN last'.raw_name :
                   last'.out.results[i] =
                       dict_set(last'.raw_name[i], "normalization",
                                normalize(item_name(last'.raw_name[i]), product_index,
                                          master_products, translator,
                                          semantic_matcher).result)]_vars

\* C15 witness: after a mapping was learned and a record added, a batch of
\* "Tomates fraiches" and "Banane plantain" returned two entries, the first
\* unmatched in place of the normalization the item came with and the second an
\* exact match, the second keeping its price.
C15_Witness ==
    /\ last.op = "normalize_batch" /\ ~last.out.raised
    /\ product_mappings # <<>> /\ Len(master_products) > 3
    /\ Len(last.raw_name) = 2 /\ Len(last.out.results) = 2
    /\ item_name(last.raw_name[1]) = TomatesFraiches
    /\ item_name(last.raw_name[2]) = BananePlantain
    /\ dict_get(last.raw_name[1], "normalization") = None
    /\ dict_get(last.out.results[1], "normalization").match_method = "none"
    /\ dict_get(last.out.results[2], "normalization").match_method = "exact"
    /\ dict_get(last.out.results[2], "price") = 2

(***************************************************************************)
(* The index after a rebuild.                                              *)
(***************************************************************************)
\* the index was rebuilt by the call that completed last
Rebuilt == last.op \in {"__init__", "add_product"}

CatalogKeys == UNION {RecordKeys(master_products[i]) : i \in DOMAIN master_products}

MappingKeys == {clean_text(product_mappings[m].k) : m \in DOMAIN product_mappings}

LastRecordWith(key) ==
    SetMax({i \in DOMAIN master_products : key \in RecordKeys(master_products[i])})

LastMappingWith(key) ==
    SetMax({m \in DOMAIN product_mappings : clean_text(product_mappings[m].k) = key})

\* C16: after a rebuild the index has each key once; its keys are the cleaned
\* names and aliases of the catalog and the cleaned keys of the learned mappings;
\* a key that a learned mapping cleans to holds that mapping's product_id (the
\* last such mapping's), whether or not the catalog has the key, and any other key
\* holds the product_id of the last record of the catalog that has it.
C16_RebuildLastWriterWins ==
    Rebuilt =>
        /\ \A i, j \in DOMAIN product_index :
              i # j => product_index[i].k # product_index[j].k
        /\ dict_keys(product_index) = CatalogKeys \cup MappingKeys
        /\ \A key \in MappingKeys :
              dict_get(product_index, key) = product_mappings[LastMappingWith(key)].v
        /\ \A key \in CatalogKeys \ MappingKeys :
              dict_get(product_index, key) = master_products[LastRecordWith(key)].product_id

\* C16 witness: a mapping of "XYZ" to PROD_999 was learned and add_product then
\* added PROD_086 with the aliases "banane plantain" and "XYZ": the rebuilt index
\* holds PROD_999 under "xyz" and PROD_086, not PROD_001, under "banane plantain".
C16_Witness ==
    /\ last.op = "add_product"
    /\ <<"x", "y", "z">> \in CatalogKeys \cap MappingKeys
    /\ dict_get(product_index, <<"x", "y", "z">>) = <<"P", "R", "O", "D", "_", "9", "9", "9">>
    /\ clean_text(BananePlantain) \in RecordKeys(master_products[1])
    /\ master_products[1].product_id = <<"P", "R", "O", "D", "_", "0", "0", "1">>
    /\ dict_get(product_index, clean_text(BananePlantain))
          = <<"P", "R", "O", "D", "_", "0", "8", "6">>
    /\ Len(master_products) = 4

(***************************************************************************)
(* The suggestions of normalize.                                           *)
(***************************************************************************)
Suggestions == last.out.result.suggestions

\* what the semantic matcher returned for a pair, 0 where it raised
SemanticScore(search_text, indexed_text) ==
    LET call == semantic_similarity(semantic_matcher, search_text, indexed_text)
    IN  IF call.raised THEN Rat(0, 1) ELSE call.value

\* the score of a pair of a searched text and an index item, of the kind the
\* suggestion s records
PairScore(s, search_text, indexed_text) ==
    IF "method" \in DOMAIN s
    THEN SemanticScore(search_text, indexed_text)
    ELSE combined_similarity(search_text, indexed_text)

\* the pairs (searched text, index item) of the product of s that score above 0.5
ScoringPairs(s) ==
    {<<v, i>> \in (DOMAIN SearchVariants) \X (DOMAIN product_index) :
        /\ product_index[i].v = s.product_id
        /\ "method" \in DOMAIN s => (s.method = "semantic" /\ semantic_matcher # "none")
        /\ RatLess(Rat(1, 2), PairScore(s, SearchVariants[v], product_index[i].k))}

\* C17: a result of normalize carries at most 5 suggestions, in non-increasing
\* order of score, and each has the score, rounded, of a pair of a searched text
\* and an index key of its product whose lexical score, or semantic score before
\* weighting, exceeded 0.5.
C17_SuggestionsBoundedSortedScored ==
    (Resolved /\ ~last.out.raised) =>
        /\ Len(Suggestions) <= 5
        /\ \A m, n \in DOMAIN Suggestions :
              m < n => Suggestions[m].score >= Suggestions[n].score
        /\ \A n \in DOMAIN Suggestions :
              \E p \in ScoringPairs(Suggestions[n]) :
                  Suggestions[n].score =
                      round3(PairScore(Suggestions[n], SearchVariants[p[1]],
                                       product_index[p[2]].k))

\* the products that some pair scores above 0.5 semantically
SemanticCandidates ==
    {product_index[i].v : i \in {j \in DOMAIN product_index :
        \E v \in Range(SearchVariants) :
            RatLess(Rat(1, 2), SemanticScore(v, product_index[j].k))}}

\* C17 witness: with the default catalog and the graded matcher, normalize("XYZ")
\* found more than five products scoring above 0.5 and returned five suggestions,
\* the first scoring more than the last.
C17_Witness ==
    /\ Resolved /\ last.raw_name = Xyz /\ last.out.scanned
    /\ semantic_matcher = "graded"
    /\ Cardinality(SemanticCandidates) > 5
    /\ Len(Suggestions) = 5
    /\ Suggestions[1].score > Suggestions[5].score

\* the pairs <<searched text, index item>> of a product that score above 0.5
\* lexically, and semantically
LexicalPairsOf(product_id) ==
    {p \in (DOMAIN SearchVariants) \X (DOMAIN product_index) :
        /\ product_index[p[2]].v = product_id
        /\ RatLess(Rat(1, 2), combined_similarity(SearchVariants[p[1]], product_index[p[2]].k))}

SemanticPairsOf(product_id) ==
    {p \in (DOMAIN SearchVariants) \X (DOMAIN product_index) :
        /\ product_index[p[2]].v = product_id
        /\ RatLess(Rat(1, 2), SemanticScore(SearchVariants[p[1]], product_index[p[2]].k))}

\* the first pair of the lexical loops: for search_text: for index item
FirstLexical(pairs) ==
    CHOOSE p \in pairs : \A q \in pairs : p[1] < q[1] \/ (p[1] = q[1] /\ p[2] <= q[2])

\* the first pair of the semantic loops: for index item: for search_text
FirstSemantic(pairs) ==
    CHOOSE p \in pairs : \A q \in pairs : p[2] < q[2] \/ (p[2] = q[2] /\ p[1] <= q[1])

LexicalScoreAt(p) == combined_similarity(SearchVariants[p[1]], product_index[p[2]].k)

SemanticScoreAt(p) == SemanticScore(SearchVariants[p[1]], product_index[p[2]].k)

\* C18: no two suggestions of a result have the same product_id, and the score of
\* a suggestion is that of the first pair, in the order the loops run (the lexical
\* loops, then the semantic loops), that scored above 0.5 for its product; a later
\* pair of the product, lower or higher, does not change it.
C18_FirstSeenPerProduct ==
    (Resolved /\ ~last.out.raised) =>
        /\ \A m, n \in DOMAIN Suggestions :
              m # n => Suggestions[m].product_id # Suggestions[n].product_id
        /\ \A n \in DOMAIN Suggestions :
              IF LexicalPairsOf(Suggestions[n].product_id) # {}
              THEN /\ "method" \notin DOMAIN Suggestions[n]
                   /\ Suggestions[n].score =
                         round3(LexicalScoreAt(FirstLexical(
                             LexicalPairsOf(Suggestions[n].product_id))))
              ELSE /\ "method" \in DOMAIN Suggestions[n]
                   /\ SemanticPairsOf(Suggestions[n].product_id) # {}
                   /\ Suggestions[n].score =
                         round3(SemanticScoreAt(FirstSemantic(
                             SemanticPairsOf(Suggestions[n].product_id))))

\* C18 witness: a normalize returned a suggestion whose score is lower than the
\* score of a later pair of the same product.
C18_Witness ==
    /\ Resolved /\ ~last.out.raised
    /\ \E n \in DOMAIN Suggestions :
          \E p \in LexicalPairsOf(Suggestions[n].product_id) :
              Suggestions[n].score < round3(LexicalScoreAt(p))

(***************************************************************************)
(* The semantic matcher in the similarity stage.                           *)
(***************************************************************************)
RatEq(x, y) == x.n * y.d = y.n * x.d

\* a greatest score of a non-empty set of scores
RatMaxOf(scores) == CHOOSE x \in scores : \A y \in scores : RatLeq(y, x)

AllPairs == (DOMAIN SearchVariants) \X (DOMAIN product_index)

\* the best score of the lexical loops, 0.0 where no pair scores more
LexicalBest == RatMaxOf({LexicalScoreAt(p) : p \in AllPairs} \cup {Rat(0, 1)})

\* 0.9 times the score of each pair for which the matcher returns
WeightedScores ==
    {Rat(9 * SemanticScoreAt(p).n, 10 * SemanticScoreAt(p).d) :
        p \in {q \in AllPairs :
                  ~semantic_similarity(semantic_matcher, SearchVariants[q[1]],
                                       product_index[q[2]].k).raised}}

SemanticGateOpen == semantic_matcher # "none" /\ RatLess(LexicalBest, Rat(9, 10))

SimilarityCalls == {n \in DOMAIN last.out.calls : last.out.calls[n] = "similarity"}

\* C19: a normalize that reaches the similarity stage calls the matcher only if
\* one is configured and the best lexical score is below 0.9 (and then for every
\* pair); the best score is the greatest of 0.9 times the semantic scores if that
\* is strictly greater than the best lexical score, and the best lexical score
\* otherwise.  So a result that a semantic pair decided has confidence at most
\* 0.9, and a best lexical score of 0.9 or more stays, with its lexical pair.
C19_SemanticGateAndWeight ==
    (Resolved /\ ~last.out.raised /\ last.out.scanned) =>
        /\ SimilarityCalls # {} => SemanticGateOpen
        /\ SemanticGateOpen =>
              Cardinality(SimilarityCalls) = Len(SearchVariants) * Len(product_index)
        /\ RatEq(last.out.best_score,
                 IF SemanticGateOpen /\ \E w \in WeightedScores : RatLess(LexicalBest, w)
                 THEN RatMaxOf(WeightedScores)
                 ELSE LexicalBest)
        /\ RatLess(LexicalBest, last.out.best_score) =>
              /\ RatLeq(last.out.best_score, Rat(9, 10))
              /\ last.out.result.confidence <= 900
        /\ RatLeq(Rat(9, 10), LexicalBest) =>
              /\ RatEq(last.out.best_score, LexicalBest)
              /\ \E p \in AllPairs :
                    /\ RatEq(LexicalScoreAt(p), LexicalBest)
                    /\ last.out.best_match = <<product_index[p[2]].v, product_index[p[2]].k>>

\* C19 witness: with a matcher configured that scores "tea" 0.95, normalize of
\* "Plantain mur mur" (with accents) scored 0.914 against the key "plantain mur",
\* the matcher was not called, and the plantain record was returned with 0.914.
C19_Witness ==
    /\ Resolved /\ last.raw_name = PlantainMurMur /\ last.out.scanned
    /\ semantic_matcher = "tea"
    /\ dict_has(product_index, <<"t", "e", "a">>)
    /\ RatLeq(Rat(9, 10), LexicalBest)
    /\ SimilarityCalls = {}
    /\ last.out.result.match_method = "similarity"
    /\ last.out.result.confidence = 914
    /\ last.out.result.product_id = <<"P", "R", "O", "D", "_", "0", "0", "1">>

(***************************************************************************)
(* Raw text that cleans to the empty string.                               *)
(***************************************************************************)
\* C20 as claimed: a normalize of raw text whose cleaned form is "" (spaces,
\* punctuation, noise words and one-character tokens only) returns product_id
\* None and needs_review true, as for empty input, in every reachable state,
\* the default catalog included.
C20_CanonicalEmptyUnmatched ==
    (Resolved /\ ~last.out.raised /\ clean_text(last.raw_name) = <<>>) =>
        /\ last.out.result.product_id = None
        /\ last.out.result.needs_review

(***************************************************************************)
(* The live index against a rebuild from the catalog and the mappings.     *)
(***************************************************************************)
\* a dict as the set of its items, without the insertion order
ItemsOf(d) == {<<d[i].k, d[i].v>> : i \in DOMAIN d}

\* the index _build_product_index would produce now
RebuiltIndex == _build_product_index(master_products, product_mappings)

\* C21 as claimed: after any sequence of learn_mapping calls, with or without a
\* shop_id, and add_product calls, the live product_index holds the same keys
\* and product ids as a full rebuild from the current catalog and the current
\* product_mappings; so no learned mapping is lost by a later rebuild.
C21_LiveIndexEqualsRebuild == ItemsOf(product_index) = ItemsOf(RebuiltIndex)

(***************************************************************************)
(* The reported confidence against the method of the result.               *)
(***************************************************************************)
\* whether the reported confidence, in thousandths, is a nearest thousandth of x
NearestThousandth(confidence, x) ==
    /\ 2 * (1000 * x.n - confidence * x.d) <= x.d
    /\ 2 * (confidence * x.d - 1000 * x.n) <= x.d

\* C22 as claimed: the confidence a result reports, rounded to three decimals,
\* lies in the band of its match_method: similarity in [0.85, 1], similarity_low
\* in [0.6, 0.85), none below 0.6; and needs_review is false exactly when the
\* reported confidence is at least 0.85.
C22_ReportedConfidenceInBand ==
    (Resolved /\ ~last.out.raised) =>
        LET result == last.out.result
        IN  /\ result.match_method = "similarity" =>
                  result.confidence >= 850 /\ result.confidence <= 1000
            /\ result.match_method = "similarity_low" =>
                  result.confidence >= 600 /\ result.confidence < 850
            /\ result.match_method = "none" => result.confidence < 600
            /\ ~result.needs_review <=> result.confidence >= 850

\* C22 amended: the bands are those of the best score before rounding, and the
\* reported confidence is that score rounded to three decimals.  A similarity
\* result has a best score of at least 0.85 and reports a confidence in
\* [0.85, 1]; a similarity_low result has a best score in [0.6, 0.85) and reports
\* a confidence in [0.6, 0.85], 0.85 included; a none result has a best score
\* below 0.6 and reports a confidence in [0, 0.6], 0.6 included.  needs_review
\* false implies a reported confidence of at least 0.85, and not the converse.
C22_BestScoreInBand ==
    (Resolved /\ ~last.out.raised) =>
        LET result == last.out.result
            best_score == last.out.best_score
        IN  /\ (last.out.scanned /\ best_score.n > 0) =>
                  NearestThousandth(result.confidence, best_score)
            /\ result.match_method = "similarity" =>
                  /\ last.out.scanned
                  /\ RatLeq(Rat(ConfidentThreshold, 100), best_score)
                  /\ result.confidence >= 850 /\ result.confidence <= 1000
                  /\ ~result.needs_review
            /\ result.match_method = "similarity_low" =>
                  /\ last.out.scanned
                  /\ RatLeq(Rat(ReviewThreshold, 100), best_score)
                  /\ RatLess(best_score, Rat(ConfidentThreshold, 100))
                  /\ result.confidence >= 600 /\ result.confidence <= 850
                  /\ result.needs_review
            /\ result.match_method = "none" =>
                  /\ last.out.scanned => RatLess(best_score, Rat(ReviewThreshold, 100))
                  /\ result.confidence >= 0 /\ result.confidence <= 600
                  /\ result.needs_review
            /\ ~result.needs_review => result.confidence >= 850

\* C22 witness: after learn_mapping("Tomate bio tomates", "PROD_020"), the line
\* "Tomate bio tomate" scored 0.6 * 34/35 + 0.4 * 2/3 = 446/525 = 0.8495 against
\* the learned key and came back as similarity_low, for review, with the
\* confidence 0.85.
C22_Witness ==
    /\ Resolved /\ last.raw_name = TomateBioTomate /\ last.out.scanned
    /\ dict_has(product_index, clean_text(TomateBioTomates))
    /\ RatEq(last.out.best_score, Rat(446, 525))
    /\ last.out.best_match = <<<<"P", "R", "O", "D", "_", "0", "2", "0">>, clean_text(TomateBioTomates)>>
    /\ last.out.result.match_method = "similarity_low"
    /\ last.out.result.needs_review
    /\ last.out.result.confidence = 850

\* the none band: after learn_mapping("Bio lai juss thon riz sels", "PROD_020"),
\* the line "Lait jus thon riz sel" scored 0.6 * 40/47 + 0.4 * 2/9 = 1268/2115
\* = 0.5995 and came back without a product, method none, confidence 0.6
NoneReportsReviewThreshold ==
    /\ Resolved /\ last.raw_name = LaitJusThonRizSel /\ last.out.scanned
    /\ RatEq(last.out.best_score, Rat(1268, 2115))
    /\ last.out.result.match_method = "none"
    /\ last.out.result.product_id = None
    /\ last.out.result.confidence = 600
=============================================================================
